---- MODULE Spec2Model ----
(***************************************************************************)
(* Model of the page-selection and transformation core of the Telegram PDF *)
(* bot: the page-expression parser (utils/pdf_tools.py), the structural    *)
(* PDF operations of PDFProcessor, and the per-user session handlers that  *)
(* collect a selection and run an operation (handlers/*.py).               *)
(*                                                                         *)
(* A Python str is a sequence of one-character strings; a PDF document is  *)
(* the sequence of its pages.                                              *)
(***************************************************************************)
EXTENDS Integers, Sequences, FiniteSets, TLC

VARIABLES
    \* ---- one call of parse_page_numbers / validate_page_input ----
    page_input,         \* the str argument
    max_pages,          \* the page count argument
    parse_pc,           \* "called" | "parsed" | "validated"
    pages,              \* what parse_page_numbers returned
    is_valid,           \* what validate_page_input returned
    \* ---- one call of a PDFProcessor operation ----
    eng_op,             \* the method called, "none" before any call
    eng_pc,             \* "idle" | "called" | "returned"
    eng_file,           \* the content of the file at input_path
    eng_sel,            \* the page list argument
    eng_ok,             \* the bool returned
    eng_out,            \* the pages written to output_path
    eng_files,          \* merge_pdfs: the contents of the files at pdf_files, in order
    eng_num,            \* the int argument: angle or pages_per_file, 0 when there is none
    eng_rot,            \* the /Rotate value of each page written to output_path
    eng_outs,           \* split_pdf_*: the pages of each file written, in the order returned
    \* ---- the session of one user and the temp directory ----
    current_operation,  \* UserSession.current_operation, "None" when unset
    current_step,       \* UserSession.current_step, "None" when unset
    current_files,      \* UserSession.current_files: the paths, in upload order
    temp_data,          \* UserSession.temp_data: a dict
    validated_against,  \* history: for each selection in temp_data, the content
                        \* of current_files[0] when its input handler accepted it
    storage,            \* TEMP_DIR: path -> content of the file
    clock,              \* int(time.time()) when the latest upload was handled
    update,             \* the update being handled
    reply,              \* what the handler answered to it
    updates,            \* number of updates handled so far
    webhook_requests,   \* the webhook() calls awaiting process_update, in arrival
                        \* order: where each stands and the locals it holds
    \* ---- the sessions of several users, TEMP_DIR by file name, the sweep ----
    user_sessions,      \* the dict user_sessions: user_id -> session
    temp_dir,           \* TEMP_DIR: file name -> content, seconds since its mtime and
                        \* (history) the user get_temp_file_path made the name for
    cleanup_manager,    \* FileCleanupManager: running, cleanup_task, the seconds its loop
                        \* still sleeps, its loop tasks and the stops that await one
    effective_user,     \* update.effective_user.id of the update being handled
    \* ---- the handles of one PDFProcessor call ----
    HAS_PYMUPDF,        \* whether import fitz succeeded in this build
    open_handles        \* the file and document objects opened and not closed

parse_vars == <<page_input, max_pages, parse_pc, pages, is_valid>>

engine_vars == <<eng_op, eng_pc, eng_file, eng_sel, eng_ok, eng_out,
                 eng_files, eng_num, eng_rot, eng_outs>>

session_vars == <<current_operation, current_step, current_files, temp_data,
                  validated_against>>

users_vars == <<user_sessions, temp_dir, cleanup_manager, effective_user>>

handle_vars == <<HAS_PYMUPDF, open_handles>>

bot_vars == <<current_operation, current_step, current_files, temp_data,
              validated_against,
              storage, clock, update, reply, updates, webhook_requests,
              user_sessions, temp_dir, cleanup_manager, effective_user,
              HAS_PYMUPDF, open_handles>>

vars == <<page_input, max_pages, parse_pc, pages, is_valid,
          eng_op, eng_pc, eng_file, eng_sel, eng_ok, eng_out,
          eng_files, eng_num, eng_rot, eng_outs,
          current_operation, current_step, current_files, temp_data,
          validated_against,
          storage, clock, update, reply, updates, webhook_requests,
          user_sessions, temp_dir, cleanup_manager, effective_user,
          HAS_PYMUPDF, open_handles>>

(***************************************************************************)
(* Bounds of the model.                                                    *)
(***************************************************************************)
MaxPages == 3       \* documents have 0..MaxPages pages
MaxTokens == 2      \* a typed page expression has at most MaxTokens comma-separated tokens
MaxFiles == 2       \* a session holds at most MaxFiles uploads between two resets
MaxTime == 1        \* uploads arrive in the seconds 0..MaxTime
MaxUpdates == 5     \* a run handles at most MaxUpdates updates
MaxInputs == 3      \* merge_pdfs is given at most MaxInputs files
MaxRequests == 2    \* at most MaxRequests webhook calls are in flight in a run
MaxEvents == 4      \* the users of a run send at most MaxEvents updates between them

Range(s) == {s[i] : i \in 1..Len(s)}

(***************************************************************************)
(* Python str and int primitives, as the parser uses them.                 *)
(***************************************************************************)
DigitVal == "0" :> 0 @@ "1" :> 1 @@ "2" :> 2 @@ "3" :> 3 @@ "4" :> 4 @@
            "5" :> 5 @@ "6" :> 6 @@ "7" :> 7 @@ "8" :> 8 @@ "9" :> 9

IsDigit(c) == c \in DOMAIN DigitVal

IsSpace(c) == c = " "

\* str.lower() on the letters of the model's alphabet
lower_char(c) == IF c = "A" THEN "a" ELSE IF c = "L" THEN "l" ELSE c

lower(s) == [i \in 1..Len(s) |-> lower_char(s[i])]

RECURSIVE lstrip(_)
lstrip(s) == IF s # <<>> /\ IsSpace(Head(s)) THEN lstrip(Tail(s)) ELSE s

RECURSIVE rstrip(_)
rstrip(s) == IF s # <<>> /\ IsSpace(s[Len(s)])
             THEN rstrip(SubSeq(s, 1, Len(s) - 1)) ELSE s

\* str.strip()
strip(s) == rstrip(lstrip(s))

\* index of the first occurrence of sep in s, 0 when there is none
find(s, sep) ==
    IF sep \in Range(s)
    THEN CHOOSE i \in 1..Len(s) : s[i] = sep /\ \A j \in 1..(i - 1) : s[j] # sep
    ELSE 0

\* str.split(sep): every piece between separators, empty pieces kept
RECURSIVE split(_, _)
split(s, sep) ==
    IF find(s, sep) = 0 THEN <<s>>
    ELSE <<SubSeq(s, 1, find(s, sep) - 1)>>
             \o split(SubSeq(s, find(s, sep) + 1, Len(s)), sep)

\* part.split('-', 1) for a part that contains '-': cut at the first '-'
split_once(s, sep) ==
    <<SubSeq(s, 1, find(s, sep) - 1), SubSeq(s, find(s, sep) + 1, Len(s))>>

RECURSIVE digits_value(_)
digits_value(s) ==
    IF s = <<>> THEN 0
    ELSE 10 * digits_value(SubSeq(s, 1, Len(s) - 1)) + DigitVal[s[Len(s)]]

all_digits(s) == s # <<>> /\ \A i \in 1..Len(s) : IsDigit(s[i])

\* int(s) raises ValueError unless s is, after surrounding whitespace is removed,
\* an optional sign followed by at least one digit
int_raises_not_on_empty(s) ==
    LET t == strip(s)
    IN  t # <<>> /\ ~ (all_digits(t) \/ (Head(t) = "-" /\ all_digits(Tail(t))))

int_raises(s) ==
    LET t == strip(s)
    IN  ~ (all_digits(t) \/ (t # <<>> /\ Head(t) = "-" /\ all_digits(Tail(t))))

int(s) ==
    LET t == strip(s)
    IN  IF t # <<>> /\ Head(t) = "-" THEN 0 - digits_value(Tail(t))
        ELSE digits_value(t)

\* list(range(a, b))
range(a, b) == [i \in 1..(IF b > a THEN b - a ELSE 0) |-> a + i - 1]

\* sorted(list(set(xs)))
RECURSIVE sorted_set(_)
sorted_set(S) ==
    IF S = {} THEN <<>>
    ELSE LET m == CHOOSE x \in S : \A y \in S : x <= y
         IN  <<m>> \o sorted_set(S \ {m})

dedup_sort_keeps_list(xs) == xs

dedup_sort(xs) == sorted_set(Range(xs))

(***************************************************************************)
(* utils/pdf_tools.py: parse_page_numbers, validate_page_input             *)
(***************************************************************************)
\* the pages a range token start-end adds to the list
range_pages_end_exclusive(start, end, max) ==
    IF start <= end /\ start >= 1 /\ end <= max THEN range(start, end) ELSE <<>>

range_pages(start, end, max) ==
    IF start <= end /\ start >= 1 /\ end <= max THEN range(start, end + 1) ELSE <<>>

\* the pages a single-number token adds to the list
single_pages_unchecked(page_num, max) == <<page_num>>

single_pages(page_num, max) ==
    IF 1 <= page_num /\ page_num <= max THEN <<page_num>> ELSE <<>>

\* the outcome of the loop over the parts: the list collected, or ValueError raised
RECURSIVE parse_parts(_, _, _)

\* a ValueError in one part leaves the loop: the except clause of the function
value_error_skips_part(parts, max, acc) == parse_parts(Tail(parts), max, acc)

value_error(parts, max, acc) == [raised |-> TRUE, pages |-> <<>>]

parse_parts(parts, max, acc) ==
    IF parts = <<>> THEN [raised |-> FALSE, pages |-> acc]
    ELSE LET part == strip(Head(parts))
         IN  IF "-" \in Range(part)
             THEN LET se == split_once(part, "-")
                  IN  IF int_raises(se[1]) \/ int_raises(se[2])
                      THEN value_error(parts, max, acc)
                      ELSE parse_parts(Tail(parts), max,
                               acc \o range_pages(int(strip(se[1])), int(strip(se[2])), max))
             ELSE IF int_raises(part)
                  THEN value_error(parts, max, acc)
                  ELSE parse_parts(Tail(parts), max, acc \o single_pages(int(part), max))

is_all_keyword_exact(s) == s = <<"a", "l", "l">>

is_all_keyword(s) == strip(lower(s)) = <<"a", "l", "l">>

parse_page_numbers(input, max) ==
    IF is_all_keyword(input) THEN range(1, max + 1)
    ELSE LET r == parse_parts(split(input, ","), max, <<>>)
         IN  IF r.raised THEN <<>> ELSE dedup_sort(r.pages)

validate_page_input(input, max) ==
    IF strip(input) = <<>> THEN FALSE
    ELSE parse_page_numbers(input, max) # <<>>

(***************************************************************************)
(* utils/pdf_tools.py: PDFProcessor.  A file is a readable PDF with its    *)
(* pages, or something PdfReader cannot read.                              *)
(***************************************************************************)
Pdf(ps) == [readable |-> TRUE, pages |-> ps]

Unreadable == [readable |-> FALSE, pages |-> <<>>]

\* delete_pages: the test that keeps the page at 0-based position page_num
keeps_page_zero_based(page_num, pages_to_delete) == page_num \notin Range(pages_to_delete)

keeps_page(page_num, pages_to_delete) == (page_num + 1) \notin Range(pages_to_delete)

\* delete_pages: for page_num in range(len(reader.pages)), from page_num on
RECURSIVE delete_loop(_, _, _)
delete_loop(reader_pages, pages_to_delete, page_num) ==
    IF page_num >= Len(reader_pages) THEN <<>>
    ELSE (IF keeps_page(page_num, pages_to_delete)
          THEN <<reader_pages[page_num + 1]>> ELSE <<>>)
             \o delete_loop(reader_pages, pages_to_delete, page_num + 1)

\* delete_pages: the bool returned and the pages of the document written
delete_pages(file, pages_to_delete) ==
    IF ~ file.readable THEN [ok |-> FALSE, out |-> <<>>]
    ELSE [ok |-> TRUE, out |-> delete_loop(file.pages, pages_to_delete, 0)]

\* handle_delete_input: the figure announced as remaining pages
remaining_pages(total_pages, pages_to_delete) == total_pages - Len(pages_to_delete)

\* a page object without a /Rotate entry has rotation 0
page_rotation(file, i) == IF "rotation" \in DOMAIN file THEN file.rotation[i] ELSE 0

\* a readable document whose pages carry /Rotate values
PdfRotated(ps, rs) == [readable |-> TRUE, pages |-> ps, rotation |-> rs]

\* reorder_pages: 1 <= page_num <= len(reader.pages)
reorder_in_bounds_below_last(page_num, total) == 1 <= page_num /\ page_num < total

reorder_in_bounds(page_num, total) == 1 <= page_num /\ page_num <= total

\* reorder_pages: for page_num in new_order, from the i-th entry on
RECURSIVE reorder_loop(_, _, _)
reorder_loop(reader_pages, new_order, i) ==
    IF i > Len(new_order) THEN <<>>
    ELSE (IF reorder_in_bounds(new_order[i], Len(reader_pages))
          THEN <<reader_pages[new_order[i]]>> ELSE <<>>)
             \o reorder_loop(reader_pages, new_order, i + 1)

reorder_pages(file, new_order) ==
    IF ~ file.readable THEN [ok |-> FALSE, out |-> <<>>]
    ELSE [ok |-> TRUE, out |-> reorder_loop(file.pages, new_order, 1)]

\* str(p) of a non-negative int: its decimal numeral
DigitChar == [d \in 0..9 |-> CHOOSE c \in DOMAIN DigitVal : DigitVal[c] = d]

RECURSIVE str(_)
str(p) == IF p < 10 THEN <<DigitChar[p]>> ELSE str(p \div 10) \o <<DigitChar[p % 10]>>

\* rotate_pages: 'all' in [str(p).lower() for p in pages_to_rotate]
names_all(pages_to_rotate) ==
    \E i \in 1..Len(pages_to_rotate) : lower(str(pages_to_rotate[i])) = <<"a", "l", "l">>

\* rotate_pages: the test that rotates the page at 0-based position page_num
rotates_page_zero_based(page_num, pages_to_rotate) ==
    page_num \in Range(pages_to_rotate) \/ names_all(pages_to_rotate)

rotates_page(page_num, pages_to_rotate) ==
    (page_num + 1) \in Range(pages_to_rotate) \/ names_all(pages_to_rotate)

\* PageObject.rotate(angle): /Rotate becomes the current value plus angle
rotate_sets_angle(current, angle) == angle

rotate(current, angle) == current + angle

rotate_pages(file, pages_to_rotate, angle) ==
    IF ~ file.readable THEN [ok |-> FALSE, out |-> <<>>, rot |-> <<>>]
    ELSE [ok |-> TRUE,
          out |-> file.pages,
          rot |-> [i \in 1..Len(file.pages) |->
                      IF rotates_page(i - 1, pages_to_rotate)
                      THEN rotate(page_rotation(file, i), angle)
                      ELSE page_rotation(file, i)]]

\* merge_pdfs: for pdf_file in pdf_files, from the i-th file on
RECURSIVE merge_loop_reversed(_, _)
merge_loop_reversed(files, i) ==
    IF i > Len(files) THEN <<>>
    ELSE merge_loop_reversed(files, i + 1) \o files[i].pages

RECURSIVE merge_loop(_, _)
merge_loop(files, i) ==
    IF i > Len(files) THEN <<>>
    ELSE files[i].pages \o merge_loop(files, i + 1)

merge_pdfs(files) ==
    IF \E i \in 1..Len(files) : ~ files[i].readable THEN [ok |-> FALSE, out |-> <<>>]
    ELSE [ok |-> TRUE, out |-> merge_loop(files, 1)]

\* compress_pdf: the deflate_level that doc.save is given for a compression_level
deflate_level(compression_level) ==
    IF compression_level = "low" THEN 1
    ELSE IF compression_level = "high" THEN 9
    ELSE 6

\* the PyPDF2 fallback calls compress_content_streams, which takes no level
NoDeflateLevel == 0

\* compress_pdf(input_path, output_path, compression_level) in a build where
\* HAS_PYMUPDF is has_pymupdf
compress_pdf(file, compression_level, has_pymupdf) ==
    IF ~ file.readable THEN [ok |-> FALSE, out |-> <<>>, effort |-> NoDeflateLevel]
    ELSE [ok |-> TRUE,
          out |-> file.pages,
          effort |-> IF has_pymupdf THEN deflate_level(compression_level)
                     ELSE NoDeflateLevel]

\* extract_text: the text of each page, "" when the file cannot be read; has_text
\* tells whether the pages of the document carry text at all
extract_text(file, has_text) ==
    IF ~ file.readable \/ ~ has_text THEN <<>> ELSE file.pages

\* extract_images: one file per image found, [] when the file cannot be read
extract_images(file, has_images) ==
    IF ~ file.readable \/ ~ has_images THEN <<>> ELSE file.pages

\* pdf_to_images: one image per page, [] when the file cannot be read
pdf_to_images(file) == IF ~ file.readable THEN <<>> ELSE file.pages

min(a, b) == IF a < b THEN a ELSE b

\* split_pdf_by_range: end_page = min(start_page + pages_per_file, total_pages)
end_page_one_short(start_page, pages_per_file, total_pages) ==
    min(start_page + pages_per_file - 1, total_pages)

end_page(start_page, pages_per_file, total_pages) ==
    min(start_page + pages_per_file, total_pages)

\* split_pdf_by_range: for start_page in range(0, total_pages, pages_per_file)
RECURSIVE range_loop(_, _, _)
range_loop(reader_pages, pages_per_file, start_page) ==
    IF start_page >= Len(reader_pages) THEN <<>>
    ELSE <<SubSeq(reader_pages, start_page + 1,
                  end_page(start_page, pages_per_file, Len(reader_pages)))>>
             \o range_loop(reader_pages, pages_per_file, start_page + pages_per_file)

\* range() raises ValueError for a step of 0 and is empty for a negative one
split_pdf_by_range(file, pages_per_file) ==
    IF ~ file.readable \/ pages_per_file <= 0 THEN <<>>
    ELSE range_loop(file.pages, pages_per_file, 0)

\* split_pdf_by_pages: 1 <= page_num <= len(reader.pages)
split_in_bounds_below_last(page_num, total) == 1 <= page_num /\ page_num < total

split_in_bounds(page_num, total) == 1 <= page_num /\ page_num <= total

\* split_pdf_by_pages: for i, page_num in enumerate(page_numbers), from the i-th on
RECURSIVE pages_loop(_, _, _)
pages_loop(reader_pages, page_numbers, i) ==
    IF i > Len(page_numbers) THEN <<>>
    ELSE (IF split_in_bounds(page_numbers[i], Len(reader_pages))
          THEN << <<reader_pages[page_numbers[i]]>> >> ELSE <<>>)
             \o pages_loop(reader_pages, page_numbers, i + 1)

split_pdf_by_pages(file, page_numbers) ==
    IF ~ file.readable THEN <<>> ELSE pages_loop(file.pages, page_numbers, 1)

(***************************************************************************)
(* The page expressions fed to the parser: up to MaxTokens tokens joined   *)
(* by commas, and the spellings of the keyword.                            *)
(***************************************************************************)
Numerals == {<<"0">>, <<"1">>, <<"2">>, <<"3">>, <<"4">>, <<"1", "2">>}

RangeTokens ==
    {<<a, "-", b>> : a, b \in {"1", "2", "3"}}
        \cup {<<"0", "-", "2">>, <<"2", "-", "4">>, <<"2", "-", "1", "2">>}

SpacedTokens ==
    {<<" ", "2">>, <<"2", " ">>, <<"1", " ", "-", " ", "3">>, <<" ", "1", "-", "2", " ">>}

MalformedTokens ==
    {<<>>, <<" ">>, <<"a">>, <<"2", "a">>, <<"a", "l", "l">>,
     <<"-", "1">>, <<"1", "-">>, <<"1", "-", "2", "-", "3">>, <<"1", "-", "-", "2">>}

Tokens == Numerals \cup RangeTokens \cup SpacedTokens \cup MalformedTokens

Pads == {<<>>, <<" ">>, <<" ", " ">>}

KeywordForms ==
    {p \o <<a, l1, l2>> \o q :
        p \in Pads, q \in Pads, a \in {"a", "A"}, l1 \in {"l", "L"}, l2 \in {"l", "L"}}

RECURSIVE join(_, _)
join(ts, sep) ==
    IF ts = <<>> THEN <<>>
    ELSE IF Len(ts) = 1 THEN ts[1]
    ELSE ts[1] \o <<sep>> \o join(Tail(ts), sep)

PageExpressions ==
    {join(ts, ",") : ts \in UNION {[1..k -> Tokens] : k \in 1..MaxTokens}}
        \cup KeywordForms

(***************************************************************************)
(* Specification of one parser call.                                       *)
(***************************************************************************)
ParseIdle ==
    /\ page_input = <<>>
    /\ max_pages = 0
    /\ parse_pc = "idle"
    /\ pages = <<>>
    /\ is_valid = FALSE

EngineIdle ==
    /\ eng_op = "none"
    /\ eng_pc = "idle"
    /\ eng_file = Unreadable
    /\ eng_sel = <<>>
    /\ eng_ok = FALSE
    /\ eng_out = <<>>
    /\ eng_files = <<>>
    /\ eng_num = 0
    /\ eng_rot = <<>>
    /\ eng_outs = <<>>

\* no user has a session yet, TEMP_DIR is empty, the cleanup task is not started
UsersIdle ==
    /\ user_sessions = <<>>
    /\ temp_dir = <<>>
    /\ cleanup_manager = [running |-> FALSE, sleep |-> 0, cleanup_task |-> 0,
                          loops |-> <<>>, stopping |-> <<>>]
    /\ effective_user = 0

\* no PDFProcessor call has opened anything
HandlesIdle ==
    /\ HAS_PYMUPDF = FALSE
    /\ open_handles = {}

BotIdle ==
    /\ UsersIdle
    /\ HandlesIdle
    /\ current_operation = "None"
    /\ current_step = "None"
    /\ current_files = <<>>
    /\ temp_data = <<>>
    /\ validated_against = <<>>
    /\ storage = <<>>
    /\ clock = 0
    /\ update = [kind |-> "none", text |-> <<>>]
    /\ reply = [kind |-> "none", n |-> 0]
    /\ updates = 0
    /\ webhook_requests = <<>>

InitParse ==
    /\ BotIdle
    /\ page_input \in PageExpressions
    /\ max_pages \in 0..MaxPages
    /\ parse_pc = "called"
    /\ pages = <<>>
    /\ is_valid = FALSE
    /\ EngineIdle

parse_page_numbers_returns ==
    /\ parse_pc = "called"
    /\ pages' = parse_page_numbers(page_input, max_pages)
    /\ parse_pc' = "parsed"
    /\ UNCHANGED <<page_input, max_pages, is_valid>>
    /\ UNCHANGED engine_vars
    /\ UNCHANGED bot_vars

validate_page_input_returns ==
    /\ parse_pc = "parsed"
    /\ is_valid' = validate_page_input(page_input, max_pages)
    /\ parse_pc' = "validated"
    /\ UNCHANGED <<page_input, max_pages, pages>>
    /\ UNCHANGED engine_vars
    /\ UNCHANGED bot_vars

NextParse == parse_page_numbers_returns \/ validate_page_input_returns

SpecParse == InitParse /\ [][NextParse]_vars

(***************************************************************************)
(* Specification of one PDFProcessor call: any file of up to MaxPages      *)
(* pages, each page told apart by a label, and any ascending page list.    *)
(***************************************************************************)
PageLabels == 1..MaxPages

Documents ==
    UNION {{ps \in [1..k -> PageLabels] : \A i, j \in 1..k : i # j => ps[i] # ps[j]} :
               k \in 0..MaxPages}

Files == {Pdf(ps) : ps \in Documents} \cup {Unreadable}

PageLists == {sorted_set(S) : S \in SUBSET (1..MaxPages)}

\* rotate_callback: the angles of the rotate_90, rotate_180 and rotate_270 buttons
Angles == {90, 180, 270}

\* every order list of up to MaxPages entries, permutation or not
Orders == UNION {[1..k -> 1..MaxPages] : k \in 0..MaxPages}

Rotations == {0, 90, 180, 270}

RotatedFiles ==
    UNION {{PdfRotated(range(1, k + 1), rs) : rs \in [1..k -> Rotations]} : k \in 0..MaxPages}
        \cup {Unreadable}

\* documents that are runs of consecutive labels, to tell the inputs of a merge apart
Runs == {Pdf(range(a, b)) : a \in 1..(MaxPages + 1), b \in 1..(MaxPages + 1)} \cup {Unreadable}

MergeLists == UNION {[1..k -> Runs] : k \in 0..MaxInputs}

ChunkSizes == 0..(MaxPages + 1)

EngineCalled(op) ==
    /\ ParseIdle
    /\ BotIdle
    /\ eng_op = op
    /\ eng_pc = "called"
    /\ eng_ok = FALSE
    /\ eng_out = <<>>
    /\ eng_rot = <<>>
    /\ eng_outs = <<>>

InitEngine ==
    \/ /\ EngineCalled("delete_pages")
       /\ eng_file \in Files
       /\ eng_sel \in PageLists
       /\ eng_files = <<>>
       /\ eng_num = 0
    \/ /\ EngineCalled("reorder_pages")
       /\ eng_file \in Files
       /\ eng_sel \in Orders
       /\ eng_files = <<>>
       /\ eng_num = 0
    \/ /\ EngineCalled("rotate_pages")
       /\ eng_file \in RotatedFiles
       /\ eng_sel \in PageLists
       /\ eng_files = <<>>
       /\ eng_num \in Angles
    \/ /\ EngineCalled("merge_pdfs")
       /\ eng_file = Unreadable
       /\ eng_sel = <<>>
       /\ eng_files \in MergeLists
       /\ eng_num = 0
    \/ /\ EngineCalled("split_pdf_by_range")
       /\ eng_file \in Files
       /\ eng_sel = <<>>
       /\ eng_files = <<>>
       /\ eng_num \in ChunkSizes
    \/ /\ EngineCalled("split_pdf_by_pages")
       /\ eng_file \in Files
       /\ eng_sel \in PageLists
       /\ eng_files = <<>>
       /\ eng_num = 0

EngineReturns ==
    /\ eng_pc' = "returned"
    /\ UNCHANGED parse_vars
    /\ UNCHANGED bot_vars

delete_pages_returns ==
    /\ eng_pc = "called"
    /\ eng_op = "delete_pages"
    /\ eng_ok' = delete_pages(eng_file, eng_sel).ok
    /\ eng_out' = delete_pages(eng_file, eng_sel).out
    /\ EngineReturns
    /\ UNCHANGED <<eng_op, eng_file, eng_sel, eng_files, eng_num, eng_rot, eng_outs>>

reorder_pages_returns ==
    /\ eng_pc = "called"
    /\ eng_op = "reorder_pages"
    /\ eng_ok' = reorder_pages(eng_file, eng_sel).ok
    /\ eng_out' = reorder_pages(eng_file, eng_sel).out
    /\ EngineReturns
    /\ UNCHANGED <<eng_op, eng_file, eng_sel, eng_files, eng_num, eng_rot, eng_outs>>

rotate_pages_returns ==
    /\ eng_pc = "called"
    /\ eng_op = "rotate_pages"
    /\ eng_ok' = rotate_pages(eng_file, eng_sel, eng_num).ok
    /\ eng_out' = rotate_pages(eng_file, eng_sel, eng_num).out
    /\ eng_rot' = rotate_pages(eng_file, eng_sel, eng_num).rot
    /\ EngineReturns
    /\ UNCHANGED <<eng_op, eng_file, eng_sel, eng_files, eng_num, eng_outs>>

\* a second call on the document just written: the same pages, by the angle that
\* completes the turn (270 after 90)
rotate_back_returns ==
    /\ eng_pc = "returned"
    /\ eng_op = "rotate_pages"
    /\ eng_ok
    /\ LET result == rotate_pages(PdfRotated(eng_out, eng_rot), eng_sel, 360 - eng_num)
       IN  /\ eng_op' = "rotate_pages_back"
           /\ eng_ok' = result.ok
           /\ eng_out' = result.out
           /\ eng_rot' = result.rot
    /\ EngineReturns
    /\ UNCHANGED <<eng_file, eng_sel, eng_files, eng_num, eng_outs>>

merge_pdfs_returns ==
    /\ eng_pc = "called"
    /\ eng_op = "merge_pdfs"
    /\ eng_ok' = merge_pdfs(eng_files).ok
    /\ eng_out' = merge_pdfs(eng_files).out
    /\ EngineReturns
    /\ UNCHANGED <<eng_op, eng_file, eng_sel, eng_files, eng_num, eng_rot, eng_outs>>

\* delete_pages on the merge of two documents, with the pages of the first selected
delete_merged_returns ==
    /\ eng_pc = "returned"
    /\ eng_op = "merge_pdfs"
    /\ eng_ok
    /\ Len(eng_files) = 2
    /\ LET selection == range(1, Len(eng_files[1].pages) + 1)
           result == delete_pages(Pdf(eng_out), selection)
       IN  /\ eng_op' = "merge_then_delete"
           /\ eng_file' = Pdf(eng_out)
           /\ eng_sel' = selection
           /\ eng_ok' = result.ok
           /\ eng_out' = result.out
    /\ EngineReturns
    /\ UNCHANGED <<eng_files, eng_num, eng_rot, eng_outs>>

split_pdf_by_range_returns ==
    /\ eng_pc = "called"
    /\ eng_op = "split_pdf_by_range"
    /\ eng_outs' = split_pdf_by_range(eng_file, eng_num)
    /\ EngineReturns
    /\ UNCHANGED <<eng_op, eng_file, eng_sel, eng_ok, eng_out, eng_files, eng_num, eng_rot>>

split_pdf_by_pages_returns ==
    /\ eng_pc = "called"
    /\ eng_op = "split_pdf_by_pages"
    /\ eng_outs' = split_pdf_by_pages(eng_file, eng_sel)
    /\ EngineReturns
    /\ UNCHANGED <<eng_op, eng_file, eng_sel, eng_ok, eng_out, eng_files, eng_num, eng_rot>>

NextEngine ==
    \/ delete_pages_returns
    \/ reorder_pages_returns
    \/ rotate_pages_returns
    \/ rotate_back_returns
    \/ merge_pdfs_returns
    \/ delete_merged_returns
    \/ split_pdf_by_range_returns
    \/ split_pdf_by_pages_returns

SpecEngine == InitEngine /\ [][NextEngine]_vars

(***************************************************************************)
(* handlers/start.py, utils/cleanup.py: the session of the user and the    *)
(* temp directory.  All files of the model belong to the one user.         *)
(***************************************************************************)
dict_set(d, k, v) == [x \in DOMAIN d \cup {k} |-> IF x = k THEN v ELSE d[x]]

dict_get(d, k, default) == IF k \in DOMAIN d THEN d[k] ELSE default

\* get_temp_file_path: user_<id>_<timestamp>_<filename> under TEMP_DIR
get_temp_file_path(timestamp, filename) == <<timestamp, filename>>

\* cleanup_user_files: what is left of TEMP_DIR, every file there being the user's
cleanup_user_files(dir) == [p \in {} |-> Unreadable]

\* PDFProcessor.get_pdf_info(path)['pages']: 0 when the file cannot be read
get_pdf_info_pages(path) ==
    IF path \in DOMAIN storage /\ storage[path].readable
    THEN Len(storage[path].pages) ELSE 0

\* what open(path) and PdfReader give: the file, or a failure when it is missing
read_file(path) == IF path \in DOMAIN storage THEN storage[path] ELSE Unreadable

\* a reset that keeps the uploaded files of the session
reset_keeps_files ==
    /\ current_operation' = "None"
    /\ current_step' = "None"
    /\ temp_data' = <<>>
    /\ validated_against' = <<>>
    /\ UNCHANGED <<current_files, storage>>

\* UserSession.reset
reset ==
    /\ current_operation' = "None"
    /\ current_files' = <<>>
    /\ current_step' = "None"
    /\ temp_data' = <<>>
    /\ validated_against' = <<>>
    /\ storage' = cleanup_user_files(storage)

\* the handler takes the next update and answers it
Handles(kind, text) ==
    /\ updates < MaxUpdates
    /\ updates' = updates + 1
    /\ update' = [kind |-> kind, text |-> text]
    /\ UNCHANGED parse_vars
    /\ UNCHANGED webhook_requests
    /\ UNCHANGED users_vars
    /\ UNCHANGED handle_vars

Answers(kind, n) == reply' = [kind |-> kind, n |-> n]

NoEngineCall ==
    /\ eng_op' = "none"
    /\ eng_pc' = "idle"
    /\ eng_file' = Unreadable
    /\ eng_sel' = <<>>
    /\ eng_ok' = FALSE
    /\ eng_out' = <<>>
    /\ eng_files' = <<>>
    /\ eng_num' = 0
    /\ eng_rot' = <<>>
    /\ eng_outs' = <<>>

\* start_command and cancel_command
start_command ==
    /\ Handles("command", <<>>)
    /\ reset
    /\ Answers("language_selection", 0)
    /\ NoEngineCall
    /\ UNCHANGED clock

cancel_command ==
    /\ Handles("command", <<>>)
    /\ reset
    /\ Answers("cancelled", 0)
    /\ NoEngineCall
    /\ UNCHANGED clock

\* main_menu_callback with callback data menu_main: the Cancel and Back buttons
main_menu_callback ==
    /\ Handles("callback", <<>>)
    /\ Answers("main_menu", 0)
    /\ NoEngineCall
    /\ UNCHANGED <<session_vars, storage, clock>>

\* the documents a user uploads
UploadNames == {"a.pdf"}

Uploads == {Pdf(range(1, k + 1)) : k \in 0..MaxPages} \cup {Unreadable}

\* handle_pdf: an upload of a document whose name is_pdf_file accepts, handled at
\* the second now, which is the second of the previous upload or a later one
handle_pdf ==
    /\ Handles("document", <<>>)
    /\ Len(current_files) < MaxFiles
    /\ NoEngineCall
    /\ UNCHANGED <<current_operation, current_step, temp_data, validated_against>>
    /\ \/ \* file_size > MAX_FILE_SIZE
          /\ Answers("file_too_large", 0)
          /\ UNCHANGED <<current_files, storage, clock>>
       \/ \E content \in Uploads, filename \in UploadNames, now \in clock..MaxTime :
              /\ clock' = now
              /\ storage' = dict_set(storage, get_temp_file_path(now, filename), content)
              /\ current_files' = Append(current_files, get_temp_file_path(now, filename))
              /\ Answers("file_received", 0)

\* the input handler accepted the selection it stores under key after reading the
\* page count of the file at current_files[0]['path']
validates(key) ==
    validated_against' = dict_set(validated_against, key, read_file(current_files[1]))

(***************************************************************************)
(* handlers/delete_pages.py                                                *)
(***************************************************************************)
\* a start that records the operation before it looks for the uploaded file
start_delete_process_unchecked ==
    /\ Handles("callback", <<>>)
    /\ NoEngineCall
    /\ UNCHANGED <<current_files, temp_data, validated_against, storage, clock>>
    /\ current_operation' = "delete"
    /\ current_step' = "waiting_pages_input"
    /\ IF current_files = <<>>
       THEN Answers("send_pdf", 0)
       ELSE Answers("instruction", get_pdf_info_pages(current_files[1]))

start_delete_process ==
    /\ Handles("callback", <<>>)
    /\ NoEngineCall
    /\ UNCHANGED <<current_files, temp_data, validated_against, storage, clock>>
    /\ IF current_files = <<>>
       THEN /\ Answers("send_pdf", 0)
            /\ UNCHANGED <<current_operation, current_step>>
       ELSE /\ current_operation' = "delete"
            /\ current_step' = "waiting_pages_input"
            /\ Answers("instruction", get_pdf_info_pages(current_files[1]))

\* a guard that looks at the step alone
delete_accepts_any_operation == current_step = "waiting_pages_input"

delete_accepts == current_operation = "delete" /\ current_step = "waiting_pages_input"

\* the selection may not cover the document: len(pages_to_delete) >= total_pages
deletes_all(pages_to_delete, total_pages) == Len(pages_to_delete) >= total_pages

handle_delete_input(text) ==
    /\ delete_accepts
    /\ UNCHANGED <<current_operation, current_step, current_files, storage, clock>>
    /\ IF current_files = <<>>
       THEN Answers("error_general", 0) /\ UNCHANGED <<temp_data, validated_against>>
       ELSE LET user_input == strip(text)
                total_pages == get_pdf_info_pages(current_files[1])
                pages_to_delete == parse_page_numbers(user_input, total_pages)
            IN  IF ~ validate_page_input(user_input, total_pages)
                THEN Answers("error_invalid_pages", total_pages) /\ UNCHANGED <<temp_data, validated_against>>
                ELSE IF deletes_all(pages_to_delete, total_pages)
                THEN Answers("error_delete_all", 0) /\ UNCHANGED <<temp_data, validated_against>>
                ELSE /\ validates("pages_to_delete")
                     /\ temp_data' = dict_set(temp_data, "pages_to_delete", pages_to_delete)
                     /\ Answers("confirm_delete", remaining_pages(total_pages, pages_to_delete))

execute_delete ==
    /\ Handles("callback", <<>>)
    /\ UNCHANGED clock
    /\ IF current_files = <<>>
       THEN /\ Answers("send_pdf", 0)
            /\ NoEngineCall
            /\ UNCHANGED <<session_vars, storage>>
       ELSE IF dict_get(temp_data, "pages_to_delete", <<>>) = <<>>
       THEN /\ Answers("no_pages_selected", 0)
            /\ NoEngineCall
            /\ UNCHANGED <<session_vars, storage>>
       ELSE LET pages_to_delete == temp_data["pages_to_delete"]
                input == read_file(current_files[1])
                result == delete_pages(input, pages_to_delete)
            IN  /\ eng_op' = "delete_pages"
                /\ eng_pc' = "returned"
                /\ eng_file' = input
                /\ eng_sel' = pages_to_delete
                /\ eng_ok' = result.ok
                /\ eng_out' = result.out
                /\ eng_files' = <<>>
                /\ eng_num' = 0
                /\ eng_rot' = <<>>
                /\ eng_outs' = <<>>
                /\ IF result.ok
                   THEN Answers("document_sent", Len(result.out)) /\ reset
                   ELSE /\ Answers("error_processing_failed", 0)
                        /\ UNCHANGED <<session_vars, storage>>

(***************************************************************************)
(* handlers/rotate.py                                                      *)
(***************************************************************************)
start_rotate_process ==
    /\ Handles("callback", <<>>)
    /\ NoEngineCall
    /\ UNCHANGED <<current_files, temp_data, validated_against, storage, clock>>
    /\ IF current_files = <<>>
       THEN /\ Answers("send_pdf", 0)
            /\ UNCHANGED <<current_operation, current_step>>
       ELSE /\ current_operation' = "rotate"
            /\ current_step' = "select_angle"
            /\ Answers("instruction", 0)

set_rotation_angle(angle) ==
    /\ Handles("callback", <<>>)
    /\ NoEngineCall
    /\ UNCHANGED <<current_operation, current_files, storage, clock>>
    /\ temp_data' = dict_set(temp_data, "rotation_angle", angle)
    /\ UNCHANGED validated_against
    /\ current_step' = "waiting_pages_input"
    /\ IF current_files = <<>>
       THEN Answers("error_processing_failed", 0)
       ELSE Answers("instruction", get_pdf_info_pages(current_files[1]))

rotate_accepts == current_operation = "rotate" /\ current_step = "waiting_pages_input"

handle_rotate_input(text) ==
    /\ rotate_accepts
    /\ UNCHANGED <<current_operation, current_step, current_files, storage, clock>>
    /\ IF current_files = <<>>
       THEN Answers("error_general", 0) /\ UNCHANGED <<temp_data, validated_against>>
       ELSE LET user_input == strip(text)
                total_pages == get_pdf_info_pages(current_files[1])
            IN  IF lower(user_input) = <<"a", "l", "l">>
                THEN /\ validates("pages_to_rotate")
                     /\ temp_data' = dict_set(temp_data, "pages_to_rotate", range(1, total_pages + 1))
                     /\ Answers("confirm_rotate", total_pages)
                ELSE IF ~ validate_page_input(user_input, total_pages)
                THEN Answers("error_invalid_pages", total_pages) /\ UNCHANGED <<temp_data, validated_against>>
                ELSE /\ validates("pages_to_rotate")
                     /\ temp_data' = dict_set(temp_data, "pages_to_rotate",
                                              parse_page_numbers(user_input, total_pages))
                     /\ Answers("confirm_rotate",
                                Len(parse_page_numbers(user_input, total_pages)))

execute_rotate ==
    /\ Handles("callback", <<>>)
    /\ UNCHANGED clock
    /\ IF current_files = <<>>
       THEN /\ Answers("send_pdf", 0)
            /\ NoEngineCall
            /\ UNCHANGED <<session_vars, storage>>
       ELSE IF dict_get(temp_data, "pages_to_rotate", <<>>) = <<>>
       THEN /\ Answers("no_pages_selected", 0)
            /\ NoEngineCall
            /\ UNCHANGED <<session_vars, storage>>
       ELSE LET pages_to_rotate == temp_data["pages_to_rotate"]
                rotation_angle == dict_get(temp_data, "rotation_angle", 90)
                input == read_file(current_files[1])
                result == rotate_pages(input, pages_to_rotate, rotation_angle)
            IN  /\ eng_op' = "rotate_pages"
                /\ eng_pc' = "returned"
                /\ eng_file' = input
                /\ eng_sel' = pages_to_rotate
                /\ eng_ok' = result.ok
                /\ eng_out' = result.out
                /\ eng_files' = <<>>
                /\ eng_num' = rotation_angle
                /\ eng_rot' = result.rot
                /\ eng_outs' = <<>>
                /\ IF result.ok
                   THEN Answers("document_sent", Len(result.out)) /\ reset
                   ELSE /\ Answers("error_processing_failed", 0)
                        /\ UNCHANGED <<session_vars, storage>>

(***************************************************************************)
(* handlers/reorder.py                                                     *)
(***************************************************************************)
start_reorder_process ==
    /\ Handles("callback", <<>>)
    /\ NoEngineCall
    /\ UNCHANGED <<current_files, temp_data, validated_against, storage, clock>>
    /\ IF current_files = <<>>
       THEN /\ Answers("send_pdf", 0)
            /\ UNCHANGED <<current_operation, current_step>>
       ELSE /\ current_operation' = "reorder"
            /\ current_step' = "waiting_order_input"
            /\ Answers("instruction", get_pdf_info_pages(current_files[1]))

reorder_accepts == current_operation = "reorder" /\ current_step = "waiting_order_input"

\* [int(x.strip()) for x in user_input.split(',')]
order_raises(user_input) ==
    \E i \in 1..Len(split(user_input, ",")) : int_raises(split(user_input, ",")[i])

order_list(user_input) ==
    [i \in 1..Len(split(user_input, ",")) |-> int(strip(split(user_input, ",")[i]))]

\* set(new_order) != set(range(1, total_pages + 1))
order_set_differs_subset_ok(new_order, total_pages) ==
    ~ (Range(new_order) \subseteq 1..total_pages)

order_set_differs(new_order, total_pages) == Range(new_order) # 1..total_pages

\* len(new_order) != total_pages
order_len_differs(new_order, total_pages) == Len(new_order) # total_pages

handle_reorder_input(text) ==
    /\ reorder_accepts
    /\ UNCHANGED <<current_operation, current_step, current_files, storage, clock>>
    /\ IF current_files = <<>>
       THEN Answers("error_general", 0) /\ UNCHANGED <<temp_data, validated_against>>
       ELSE LET user_input == strip(text)
                total_pages == get_pdf_info_pages(current_files[1])
            IN  IF order_raises(user_input)
                THEN Answers("error_invalid_format", 0) /\ UNCHANGED <<temp_data, validated_against>>
                ELSE IF order_len_differs(order_list(user_input), total_pages)
                THEN Answers("error_order_count", total_pages) /\ UNCHANGED <<temp_data, validated_against>>
                ELSE IF order_set_differs(order_list(user_input), total_pages)
                THEN Answers("error_order_numbers", total_pages) /\ UNCHANGED <<temp_data, validated_against>>
                ELSE /\ validates("new_order")
                     /\ temp_data' = dict_set(temp_data, "new_order", order_list(user_input))
                     /\ Answers("confirm_reorder", total_pages)

execute_reorder ==
    /\ Handles("callback", <<>>)
    /\ UNCHANGED clock
    /\ IF current_files = <<>>
       THEN /\ Answers("send_pdf", 0)
            /\ NoEngineCall
            /\ UNCHANGED <<session_vars, storage>>
       ELSE IF dict_get(temp_data, "new_order", <<>>) = <<>>
       THEN /\ Answers("no_pages_selected", 0)
            /\ NoEngineCall
            /\ UNCHANGED <<session_vars, storage>>
       ELSE LET new_order == temp_data["new_order"]
                input == read_file(current_files[1])
                result == reorder_pages(input, new_order)
            IN  /\ eng_op' = "reorder_pages"
                /\ eng_pc' = "returned"
                /\ eng_file' = input
                /\ eng_sel' = new_order
                /\ eng_ok' = result.ok
                /\ eng_out' = result.out
                /\ eng_files' = <<>>
                /\ eng_num' = 0
                /\ eng_rot' = <<>>
                /\ eng_outs' = <<>>
                /\ IF result.ok
                   THEN Answers("document_sent", Len(result.out)) /\ reset
                   ELSE /\ Answers("error_processing_failed", 0)
                        /\ UNCHANGED <<session_vars, storage>>

(***************************************************************************)
(* handlers/split.py                                                       *)
(***************************************************************************)
start_split_process ==
    /\ Handles("callback", <<>>)
    /\ NoEngineCall
    /\ UNCHANGED <<current_files, temp_data, validated_against, storage, clock>>
    /\ IF current_files = <<>>
       THEN /\ Answers("send_pdf", 0)
            /\ UNCHANGED <<current_operation, current_step>>
       ELSE /\ current_operation' = "split"
            /\ current_step' = "select_mode"
            /\ Answers("instruction", 0)

split_by_pages_mode ==
    /\ Handles("callback", <<>>)
    /\ NoEngineCall
    /\ UNCHANGED <<current_operation, current_files, storage, clock>>
    /\ temp_data' = dict_set(temp_data, "split_mode", "pages")
    /\ UNCHANGED validated_against
    /\ current_step' = "waiting_pages_input"
    /\ IF current_files = <<>>
       THEN Answers("error_processing_failed", 0)
       ELSE Answers("instruction", get_pdf_info_pages(current_files[1]))

split_by_range_mode ==
    /\ Handles("callback", <<>>)
    /\ NoEngineCall
    /\ UNCHANGED <<current_operation, current_files, storage, clock>>
    /\ temp_data' = dict_set(temp_data, "split_mode", "range")
    /\ UNCHANGED validated_against
    /\ current_step' = "waiting_range_input"
    /\ IF current_files = <<>>
       THEN Answers("error_processing_failed", 0)
       ELSE Answers("instruction", get_pdf_info_pages(current_files[1]))

split_accepts ==
    current_operation = "split"
        /\ current_step \in {"waiting_pages_input", "waiting_range_input"}

\* num_files = (total_pages + pages_per_file - 1) // pages_per_file
num_files(total_pages, pages_per_file) == (total_pages + pages_per_file - 1) \div pages_per_file

handle_split_input(text) ==
    /\ split_accepts
    /\ UNCHANGED <<current_operation, current_step, current_files, storage, clock>>
    /\ IF current_files = <<>>
       THEN Answers("error_general", 0) /\ UNCHANGED <<temp_data, validated_against>>
       ELSE LET user_input == strip(text)
                total_pages == get_pdf_info_pages(current_files[1])
            IN  IF current_step = "waiting_pages_input"
                THEN IF ~ validate_page_input(user_input, total_pages)
                     THEN Answers("error_invalid_pages", total_pages) /\ UNCHANGED <<temp_data, validated_against>>
                     ELSE /\ validates("pages_to_split")
                          /\ temp_data' = dict_set(temp_data, "pages_to_split",
                                                   parse_page_numbers(user_input, total_pages))
                          /\ Answers("confirm_split",
                                     Len(parse_page_numbers(user_input, total_pages)))
                ELSE IF int_raises(user_input)
                          \/ int(user_input) <= 0 \/ int(user_input) > total_pages
                     THEN Answers("error_invalid_number", total_pages) /\ UNCHANGED <<temp_data, validated_against>>
                     ELSE /\ validates("pages_per_file")
                          /\ temp_data' = dict_set(temp_data, "pages_per_file", int(user_input))
                          /\ Answers("confirm_split", num_files(total_pages, int(user_input)))

\* execute_split: output_files stays [] when split_mode is neither 'pages' nor 'range'
execute_split ==
    /\ Handles("callback", <<>>)
    /\ UNCHANGED clock
    /\ IF current_files = <<>>
       THEN /\ Answers("send_pdf", 0)
            /\ NoEngineCall
            /\ UNCHANGED <<session_vars, storage>>
       ELSE LET input == read_file(current_files[1])
                split_mode == dict_get(temp_data, "split_mode", "None")
                pages_to_split == dict_get(temp_data, "pages_to_split", <<>>)
                pages_per_file == dict_get(temp_data, "pages_per_file", 1)
                output_files ==
                    IF split_mode = "pages" THEN split_pdf_by_pages(input, pages_to_split)
                    ELSE IF split_mode = "range" THEN split_pdf_by_range(input, pages_per_file)
                    ELSE <<>>
            IN  /\ IF split_mode = "pages"
                   THEN /\ eng_op' = "split_pdf_by_pages"
                        /\ eng_pc' = "returned"
                        /\ eng_file' = input
                        /\ eng_sel' = pages_to_split
                        /\ eng_num' = 0
                        /\ eng_outs' = output_files
                        /\ eng_ok' = FALSE /\ eng_out' = <<>>
                        /\ eng_files' = <<>> /\ eng_rot' = <<>>
                   ELSE IF split_mode = "range"
                   THEN /\ eng_op' = "split_pdf_by_range"
                        /\ eng_pc' = "returned"
                        /\ eng_file' = input
                        /\ eng_sel' = <<>>
                        /\ eng_num' = pages_per_file
                        /\ eng_outs' = output_files
                        /\ eng_ok' = FALSE /\ eng_out' = <<>>
                        /\ eng_files' = <<>> /\ eng_rot' = <<>>
                   ELSE NoEngineCall
                /\ IF output_files # <<>>
                   THEN Answers("documents_sent", Len(output_files)) /\ reset
                   ELSE /\ Answers("error_processing_failed", 0)
                        /\ UNCHANGED <<session_vars, storage>>

(***************************************************************************)
(* handlers/merge.py                                                       *)
(***************************************************************************)
\* temp_data['merge_files'] once start_merge_process has looked at current_files
merge_files_with_current ==
    LET merge_files == dict_get(temp_data, "merge_files", <<>>)
    IN  IF current_files[1] \in Range(merge_files) THEN merge_files
        ELSE Append(merge_files, current_files[1])

start_merge_process ==
    /\ Handles("callback", <<>>)
    /\ NoEngineCall
    /\ UNCHANGED <<current_files, validated_against, storage, clock>>
    /\ current_operation' = "merge"
    /\ current_step' = "collecting_files"
    /\ IF current_files = <<>>
       THEN /\ UNCHANGED temp_data
            /\ Answers("merge_status", Len(dict_get(temp_data, "merge_files", <<>>)))
       ELSE /\ temp_data' = dict_set(temp_data, "merge_files", merge_files_with_current)
            /\ Answers("merge_status", Len(merge_files_with_current))

clear_merge_files ==
    /\ Handles("callback", <<>>)
    /\ NoEngineCall
    /\ UNCHANGED <<current_operation, current_step, current_files, validated_against,
                   storage, clock>>
    /\ temp_data' = dict_set(temp_data, "merge_files", <<>>)
    /\ Answers("merge_status", 0)

execute_merge ==
    /\ Handles("callback", <<>>)
    /\ UNCHANGED clock
    /\ IF Len(dict_get(temp_data, "merge_files", <<>>)) < 2
       THEN /\ Answers("no_pages_selected", 0)
            /\ NoEngineCall
            /\ UNCHANGED <<session_vars, storage>>
       ELSE LET merge_files == temp_data["merge_files"]
                inputs == [i \in 1..Len(merge_files) |-> read_file(merge_files[i])]
                result == merge_pdfs(inputs)
            IN  /\ eng_op' = "merge_pdfs"
                /\ eng_pc' = "returned"
                /\ eng_file' = Unreadable
                /\ eng_sel' = <<>>
                /\ eng_ok' = result.ok
                /\ eng_out' = result.out
                /\ eng_files' = inputs
                /\ eng_num' = 0
                /\ eng_rot' = <<>>
                /\ eng_outs' = <<>>
                /\ IF result.ok
                   THEN Answers("document_sent", Len(result.out)) /\ reset
                   ELSE /\ Answers("error_processing_failed", 0)
                        /\ UNCHANGED <<session_vars, storage>>

(***************************************************************************)
(* handlers/compress.py                                                    *)
(***************************************************************************)
\* compress_callback: the levels of the compress_low, compress_medium and
\* compress_high buttons
Levels == {"low", "medium", "high"}

start_compress_process ==
    /\ Handles("callback", <<>>)
    /\ NoEngineCall
    /\ UNCHANGED <<current_files, temp_data, validated_against, storage, clock>>
    /\ IF current_files = <<>>
       THEN /\ Answers("send_pdf", 0)
            /\ UNCHANGED <<current_operation, current_step>>
       ELSE /\ current_operation' = "compress"
            /\ current_step' = "select_level"
            /\ Answers("instruction", 0)

\* set_compression_level stores the level and then reads current_files[0] outside
\* any try: with no file the IndexError leaves the handler after the store
set_compression_level(level) ==
    /\ Handles("callback", <<>>)
    /\ NoEngineCall
    /\ UNCHANGED <<current_operation, current_step, current_files, validated_against,
                   storage, clock>>
    /\ temp_data' = dict_set(temp_data, "compression_level", level)
    /\ IF current_files = <<>>
       THEN Answers("none", 0)
       ELSE Answers("confirm_compress", 0)

\* execute_compress reads temp_data['compression_level'] for its message and calls
\* compress_pdf(input_path, output_path), whose compression_level defaults to 'medium'
execute_compress ==
    /\ Handles("callback", <<>>)
    /\ UNCHANGED clock
    /\ IF current_files = <<>>
       THEN /\ Answers("send_pdf", 0)
            /\ NoEngineCall
            /\ UNCHANGED <<session_vars, storage>>
       ELSE \E has_pymupdf \in BOOLEAN :
            LET input == read_file(current_files[1])
                result == compress_pdf(input, "medium", has_pymupdf)
            IN  /\ eng_op' = "compress_pdf"
                /\ eng_pc' = "returned"
                /\ eng_file' = input
                /\ eng_sel' = <<>>
                /\ eng_ok' = result.ok
                /\ eng_out' = result.out
                /\ eng_files' = <<>>
                /\ eng_num' = result.effort
                /\ eng_rot' = <<>>
                /\ eng_outs' = <<>>
                /\ IF result.ok
                   THEN Answers("document_sent", Len(result.out)) /\ reset
                   ELSE /\ Answers("error_processing_failed", 0)
                        /\ UNCHANGED <<session_vars, storage>>

(***************************************************************************)
(* handlers/extract_text.py, handlers/extract_images.py                    *)
(***************************************************************************)
\* an engine call that hands back one list: op(input) = result
ListEngineCall(op, input, result) ==
    /\ eng_op' = op
    /\ eng_pc' = "returned"
    /\ eng_file' = input
    /\ eng_sel' = <<>>
    /\ eng_ok' = (result # <<>>)
    /\ eng_out' = result
    /\ eng_files' = <<>>
    /\ eng_num' = 0
    /\ eng_rot' = <<>>
    /\ eng_outs' = <<>>

start_extract_text_process ==
    /\ Handles("callback", <<>>)
    /\ UNCHANGED clock
    /\ IF current_files = <<>>
       THEN /\ Answers("send_pdf", 0)
            /\ NoEngineCall
            /\ UNCHANGED <<session_vars, storage>>
       ELSE \E has_text \in BOOLEAN :
            LET input == read_file(current_files[1])
                extracted_text == extract_text(input, has_text)
            IN  /\ ListEngineCall("extract_text", input, extracted_text)
                /\ IF extracted_text # <<>>
                   THEN Answers("text_sent", Len(extracted_text)) /\ reset
                   ELSE /\ Answers("no_text_found", 0)
                        /\ current_operation' = "extract_text"
                        /\ current_step' = "processing"
                        /\ UNCHANGED <<current_files, temp_data, validated_against, storage>>

start_extract_images_process ==
    /\ Handles("callback", <<>>)
    /\ UNCHANGED clock
    /\ IF current_files = <<>>
       THEN /\ Answers("send_pdf", 0)
            /\ NoEngineCall
            /\ UNCHANGED <<session_vars, storage>>
       ELSE \E has_images \in BOOLEAN :
            LET input == read_file(current_files[1])
                image_files == extract_images(input, has_images)
            IN  /\ ListEngineCall("extract_images", input, image_files)
                /\ IF image_files # <<>>
                   THEN Answers("images_sent", Len(image_files)) /\ reset
                   ELSE /\ Answers("no_images_found", 0)
                        /\ current_operation' = "extract_images"
                        /\ current_step' = "processing"
                        /\ UNCHANGED <<current_files, temp_data, validated_against, storage>>

(***************************************************************************)
(* handlers/convert.py: the conversion of a PDF to images                  *)
(***************************************************************************)
start_convert_process ==
    /\ Handles("callback", <<>>)
    /\ NoEngineCall
    /\ UNCHANGED <<current_files, temp_data, validated_against, storage, clock>>
    /\ current_operation' = "convert"
    /\ current_step' = "select_type"
    /\ Answers("instruction", 0)

convert_pdf_to_images ==
    /\ Handles("callback", <<>>)
    /\ UNCHANGED clock
    /\ IF current_files = <<>>
       THEN /\ Answers("send_pdf", 0)
            /\ NoEngineCall
            /\ UNCHANGED <<session_vars, storage>>
       ELSE LET input == read_file(current_files[1])
                image_files == pdf_to_images(input)
            IN  /\ ListEngineCall("pdf_to_images", input, image_files)
                /\ IF image_files # <<>>
                   THEN Answers("images_sent", Len(image_files)) /\ reset
                   ELSE /\ Answers("error_processing_failed", 0)
                        /\ current_step' = "converting_pdf"
                        /\ UNCHANGED <<current_operation, current_files, temp_data,
                                       validated_against, storage>>

\* the texts a user types
Str1(a) == <<a>>

Str3(a, b, c) == <<a, b, c>>

Str5(a, b, c, d, e) == <<a, b, c, d, e>>

MessageTexts ==
    {Str1(" "), Str1("a"), Str1("0"), Str1("1"), Str1("2"),
     Str3("a", "l", "l"), Str3("1", "-", "2"),
     Str3("1", ",", "2"), Str3("2", ",", "1"),
     Str5("3", ",", "1", ",", "2"), Str5("1", ",", "1", ",", "2")}

(***************************************************************************)
(* handlers/admin.py: the broadcast of an administrator, whose id is in    *)
(* ADMIN_IDS; the session here is an administrator's when it is in         *)
(* admin_broadcast, admin_callback having refused everyone else.           *)
(***************************************************************************)
start_broadcast ==
    /\ Handles("callback", <<>>)
    /\ NoEngineCall
    /\ UNCHANGED <<current_files, temp_data, validated_against, storage, clock>>
    /\ current_operation' = "admin_broadcast"
    /\ current_step' = "waiting_message"
    /\ Answers("broadcast_instruction", 0)

broadcast_accepts ==
    current_operation = "admin_broadcast" /\ current_step = "waiting_message"

handle_broadcast_message(text) ==
    /\ broadcast_accepts
    /\ UNCHANGED <<current_operation, current_step, current_files, validated_against,
                   storage, clock>>
    /\ temp_data' = dict_set(temp_data, "broadcast_message", text)
    /\ Answers("confirm_broadcast", 0)

(***************************************************************************)
(* main.py: handle_text_messages tries the input handlers in order; the    *)
(* first that returns True has processed the message.                      *)
(***************************************************************************)
handle_text(Texts) ==
    /\ NoEngineCall
    /\ \/ \E text \in Texts :
              /\ Handles("text", text)
              /\ \/ handle_split_input(text)
                 \/ ~ split_accepts /\ handle_delete_input(text)
                 \/ ~ split_accepts /\ ~ delete_accepts /\ handle_rotate_input(text)
                 \/ /\ ~ split_accepts /\ ~ delete_accepts /\ ~ rotate_accepts
                    /\ handle_reorder_input(text)
                 \/ /\ ~ split_accepts /\ ~ delete_accepts /\ ~ rotate_accepts
                    /\ ~ reorder_accepts
                    /\ handle_broadcast_message(text)
       \/ \* no handler took the message: show_main_menu, which does not read its text
          /\ ~ split_accepts /\ ~ delete_accepts /\ ~ rotate_accepts /\ ~ reorder_accepts
          /\ ~ broadcast_accepts
          /\ Handles("text", <<>>)
          /\ Answers("main_menu", 0)
          /\ UNCHANGED <<session_vars, storage, clock>>

handle_text_messages == handle_text(MessageTexts)

(***************************************************************************)
(* The bot: the updates one user can send, in any order.                   *)
(***************************************************************************)
Init == ParseIdle /\ EngineIdle /\ BotIdle

Next ==
    \/ start_command
    \/ cancel_command
    \/ main_menu_callback
    \/ handle_pdf
    \/ start_delete_process
    \/ execute_delete
    \/ start_rotate_process
    \/ \E angle \in Angles : set_rotation_angle(angle)
    \/ execute_rotate
    \/ start_reorder_process
    \/ execute_reorder
    \/ start_split_process
    \/ split_by_pages_mode
    \/ split_by_range_mode
    \/ execute_split
    \/ handle_text_messages

Spec == Init /\ [][Next]_vars

(***************************************************************************)
(* The bot with every operation of its menu: the page operations fed with  *)
(* a few texts, and the operations driven by buttons alone.                *)
(***************************************************************************)
OperationTexts == {Str1("1")}

handle_operation_text == handle_text(OperationTexts)

\* the angle of the first angle button
QuarterTurn == 90

NextOperations ==
    \/ start_command
    \/ cancel_command
    \/ main_menu_callback
    \/ handle_pdf
    \/ start_delete_process
    \/ execute_delete
    \/ start_rotate_process
    \/ set_rotation_angle(QuarterTurn)
    \/ execute_rotate
    \/ start_reorder_process
    \/ execute_reorder
    \/ start_split_process
    \/ split_by_pages_mode
    \/ split_by_range_mode
    \/ execute_split
    \/ start_merge_process
    \/ clear_merge_files
    \/ execute_merge
    \/ start_compress_process
    \/ \E level \in Levels : set_compression_level(level)
    \/ execute_compress
    \/ handle_operation_text

SpecOperations == Init /\ [][NextOperations]_vars

\* the bot of a user who extracts and converts: the handlers that call the
\* engine as soon as their button is pressed, next to one operation that
\* collects a parameter first
NextExtract ==
    \/ start_command
    \/ cancel_command
    \/ main_menu_callback
    \/ handle_pdf
    \/ start_delete_process
    \/ execute_delete
    \/ start_extract_text_process
    \/ start_extract_images_process
    \/ start_convert_process
    \/ convert_pdf_to_images
    \/ handle_operation_text

SpecExtract == Init /\ [][NextExtract]_vars

(***************************************************************************)
(* main.py webhook: every POST is a coroutine of its own that awaits       *)
(* process_update, so the handlers of two updates of one user run          *)
(* interleaved at their awaits. The updates here are presses of the        *)
(* delete_execute button; execute_delete is cut where it awaits Telegram.  *)
(***************************************************************************)
UploadPath == get_temp_file_path(0, "a.pdf")

\* the session after an upload, delete_start and a text that handle_delete_input
\* accepted
delete_confirmed(content, text) ==
    LET total_pages == IF content.readable THEN Len(content.pages) ELSE 0
        pages_to_delete == parse_page_numbers(strip(text), total_pages)
    IN  /\ validate_page_input(strip(text), total_pages)
        /\ ~ deletes_all(pages_to_delete, total_pages)
        /\ current_operation = "delete"
        /\ current_step = "waiting_pages_input"
        /\ current_files = <<UploadPath>>
        /\ temp_data = [pages_to_delete |-> pages_to_delete]
        /\ validated_against = [pages_to_delete |-> content]
        /\ storage = [path \in {UploadPath} |-> content]
        /\ clock = 0
        /\ update = [kind |-> "text", text |-> text]
        /\ reply = [kind |-> "confirm_delete",
                    n |-> remaining_pages(total_pages, pages_to_delete)]
        /\ updates = 3
        /\ UsersIdle
        /\ HandlesIdle

InitWebhook ==
    /\ ParseIdle
    /\ EngineIdle
    /\ webhook_requests = <<>>
    /\ \/ BotIdle
       \/ \E content \in Uploads, text \in MessageTexts : delete_confirmed(content, text)

\* the request is at the await named pc
Awaits(r, pc) == webhook_requests' = [webhook_requests EXCEPT ![r].pc = pc]

\* webhook: a POST with a delete_execute callback arrives; process_update runs
\* delete_callback up to await query.answer()
webhook ==
    /\ Len(webhook_requests) < MaxRequests
    /\ webhook_requests' = Append(webhook_requests, [pc |-> "answer", pages_to_delete |-> <<>>])
    /\ updates' = updates + 1
    /\ update' = [kind |-> "callback", text |-> <<>>]
    /\ UNCHANGED <<parse_vars, users_vars, handle_vars, engine_vars, session_vars, storage, clock, reply>>

\* execute_delete from its first line to the await that follows its checks
execute_delete_checks(r) ==
    /\ webhook_requests[r].pc = "answer"
    /\ UNCHANGED <<parse_vars, users_vars, handle_vars, engine_vars, session_vars, storage, clock, update, updates>>
    /\ IF current_files = <<>>
       THEN Answers("send_pdf", 0) /\ Awaits(r, "done")
       ELSE IF dict_get(temp_data, "pages_to_delete", <<>>) = <<>>
       THEN Answers("no_pages_selected", 0) /\ Awaits(r, "done")
       ELSE /\ Answers("processing", 0)
            /\ webhook_requests' =
                   [webhook_requests EXCEPT ![r] =
                       [pc |-> "processing", pages_to_delete |-> temp_data["pages_to_delete"]]]

\* execute_delete from the processing message to await send_document; with no
\* current_files[0] the IndexError is caught by except Exception
execute_delete_engine(r) ==
    /\ webhook_requests[r].pc = "processing"
    /\ UNCHANGED <<parse_vars, users_vars, handle_vars, session_vars, storage, clock, update, updates>>
    /\ IF current_files = <<>>
       THEN /\ Answers("error_general", 0)
            /\ Awaits(r, "done")
            /\ UNCHANGED engine_vars
       ELSE LET pages_to_delete == webhook_requests[r].pages_to_delete
                input == read_file(current_files[1])
                result == delete_pages(input, pages_to_delete)
            IN  /\ eng_op' = "delete_pages"
                /\ eng_pc' = "returned"
                /\ eng_file' = input
                /\ eng_sel' = pages_to_delete
                /\ eng_ok' = result.ok
                /\ eng_out' = result.out
                /\ UNCHANGED <<eng_files, eng_num, eng_rot, eng_outs>>
                /\ IF result.ok
                   THEN Answers("document_sent", Len(result.out)) /\ Awaits(r, "sending")
                   ELSE Answers("error_processing_failed", 0) /\ Awaits(r, "done")

\* execute_delete from the return of send_document to await show_main_menu
execute_delete_reset(r) ==
    /\ webhook_requests[r].pc = "sending"
    /\ reset
    /\ Answers("main_menu", 0)
    /\ Awaits(r, "menu")
    /\ UNCHANGED <<parse_vars, users_vars, handle_vars, engine_vars, clock, update, updates>>

\* show_main_menu returns and with it execute_delete, process_update and webhook
execute_delete_returns(r) ==
    /\ webhook_requests[r].pc = "menu"
    /\ Awaits(r, "done")
    /\ UNCHANGED <<parse_vars, users_vars, handle_vars, engine_vars, session_vars, storage, clock, update, reply,
                   updates>>

NextWebhook ==
    \/ webhook
    \/ \E r \in DOMAIN webhook_requests : execute_delete_checks(r)
    \/ \E r \in DOMAIN webhook_requests : execute_delete_engine(r)
    \/ \E r \in DOMAIN webhook_requests : execute_delete_reset(r)
    \/ \E r \in DOMAIN webhook_requests : execute_delete_returns(r)

SpecWebhook == InitWebhook /\ [][NextWebhook]_vars

(***************************************************************************)
(* utils/pdf_tools.py: the files and documents one PDFProcessor call opens *)
(* and closes, statement by statement.  eng_pc is the position of the      *)
(* call: "called", "opened", "processed", "written", "closed", "raised",   *)
(* "returned".                                                             *)
(***************************************************************************)
\* the operations that read input_path under "with open(input_path, 'rb') as file"
\* in every build
WithOpenOps ==
    {"delete_pages", "rotate_pages", "reorder_pages",
     "split_pdf_by_pages", "split_pdf_by_range"}

\* the operations that take the fitz branch when HAS_PYMUPDF
FitzOps == {"compress_pdf", "extract_text", "extract_images", "pdf_to_images"}

\* the operations that write output_path themselves under "with open(output_path, 'wb')"
WritesOutput(op) == op \in WithOpenOps \cup {"compress_pdf"}

UsesFitz == HAS_PYMUPDF /\ eng_op \in FitzOps

HandleInputs == {Pdf(range(1, 2)), Pdf(range(1, 3)), Unreadable}

InitHandles ==
    /\ ParseIdle
    /\ UsersIdle
    /\ current_operation = "None"
    /\ current_step = "None"
    /\ current_files = <<>>
    /\ temp_data = <<>>
    /\ validated_against = <<>>
    /\ storage = <<>>
    /\ clock = 0
    /\ update = [kind |-> "none", text |-> <<>>]
    /\ reply = [kind |-> "none", n |-> 0]
    /\ updates = 0
    /\ webhook_requests = <<>>
    /\ HAS_PYMUPDF \in BOOLEAN
    /\ open_handles = {}
    /\ eng_op \in WithOpenOps \cup FitzOps
    /\ eng_pc = "called"
    /\ eng_file \in HandleInputs
    /\ eng_sel = <<>>
    /\ eng_ok = FALSE
    /\ eng_out = <<>>
    /\ eng_files = <<>>
    /\ eng_num = 0
    /\ eng_rot = <<>>
    /\ eng_outs = <<>>

\* a statement of the call was executed and left the call at pc
Executes(pc) ==
    /\ eng_pc' = pc
    /\ UNCHANGED <<eng_op, eng_file, eng_sel, eng_out, eng_files, eng_num, eng_rot, eng_outs>>
    /\ UNCHANGED <<parse_vars, session_vars, storage, clock, update, reply, updates,
                   webhook_requests, users_vars, HAS_PYMUPDF>>

\* with open(input_path, 'rb') as file: the file object is open inside the block
with_open_input ==
    /\ eng_pc = "called"
    /\ ~ UsesFitz
    /\ open_handles' = open_handles \cup {"file"}
    /\ UNCHANGED eng_ok
    /\ Executes("opened")

\* PyPDF2.PdfReader(file) and the loop over its pages; an exception leaves the
\* with block, which closes file
PdfReader_reads ==
    /\ eng_pc = "opened"
    /\ ~ UsesFitz
    /\ UNCHANGED eng_ok
    /\ IF eng_file.readable
       THEN UNCHANGED open_handles /\ Executes("processed")
       ELSE open_handles' = open_handles \ {"file"} /\ Executes("raised")

\* with open(output_path, 'wb') as output_file: writer.write(output_file), and the
\* end of both with blocks; the write succeeds or raises
with_open_output ==
    /\ eng_pc = "processed"
    /\ ~ UsesFitz
    /\ open_handles' = open_handles \ {"file"}
    /\ UNCHANGED eng_ok
    /\ IF WritesOutput(eng_op)
       THEN \E written_out \in BOOLEAN :
                Executes(IF written_out THEN "closed" ELSE "raised")
       ELSE Executes("closed")

\* doc = fitz.open(input_path): a document, or an exception for a file that is no PDF
fitz_open ==
    /\ eng_pc = "called"
    /\ UsesFitz
    /\ UNCHANGED eng_ok
    /\ IF eng_file.readable
       THEN open_handles' = open_handles \cup {"doc"} /\ Executes("opened")
       ELSE UNCHANGED open_handles /\ Executes("raised")

\* doc.save, page.get_text, fitz.Pixmap and pix.save: each returns or raises
fitz_processes ==
    /\ eng_pc = "opened"
    /\ UsesFitz
    /\ UNCHANGED <<eng_ok, open_handles>>
    /\ \E raises \in BOOLEAN : Executes(IF raises THEN "raised" ELSE "processed")

\* doc.close()
doc_close ==
    /\ eng_pc = "processed"
    /\ UsesFitz
    /\ open_handles' = open_handles \ {"doc"}
    /\ UNCHANGED eng_ok
    /\ Executes("closed")

\* return True, return output_files, return text.strip()
returns_result ==
    /\ eng_pc = "closed"
    /\ eng_ok' = TRUE
    /\ UNCHANGED open_handles
    /\ Executes("returned")

\* except Exception: the failure value is returned.  A doc that was not closed is
\* closed when the collector finalises it, which may be at the return or later
except_returns ==
    /\ eng_pc = "raised"
    /\ eng_ok' = FALSE
    /\ \E finalised \in BOOLEAN :
           open_handles' = IF finalised THEN {} ELSE open_handles
    /\ Executes("returned")

NextHandles ==
    \/ with_open_input
    \/ PdfReader_reads
    \/ with_open_output
    \/ fitz_open
    \/ fitz_processes
    \/ doc_close
    \/ returns_result
    \/ except_returns

SpecHandles == InitHandles /\ [][NextHandles]_vars

(***************************************************************************)
(* handlers/start.py, utils/cleanup.py, config/settings.py: the sessions   *)
(* of several users, the files of TEMP_DIR under their names, and the      *)
(* periodic sweep.  One operation, delete, stands for the operations.      *)
(***************************************************************************)
FILE_RETENTION_TIME == 1800

CLEANUP_INTERVAL == 3600

\* time passes in steps of half an hour
TimeStep == CLEANUP_INTERVAL - FILE_RETENTION_TIME

\* seconds since the mtime are told apart up to the first step past the retention
AgeCap == FILE_RETENTION_TIME + TimeStep

\* updates arrive until LastArrival; from there on only time passes
LastArrival == MaxTime * TimeStep

\* 1 is a decimal prefix of 12
UserIds == {1, 12}

UserUploads == {Pdf(range(1, 3)), Unreadable}

\* file names, cut to one letter: a for the upload a.pdf, d for pages_deleted.pdf
UploadedName == Str1("a")

OutputName == Str1("d")

startswith(s, prefix) == Len(s) >= Len(prefix) /\ SubSeq(s, 1, Len(prefix)) = prefix

\* a prefix that does not end the user id
user_prefix_unterminated(user_id) == <<"u", "s", "e", "r", "_">> \o str(user_id)

\* cleanup_user_files: user_prefix = f"user_{user_id}_"
user_prefix(user_id) == <<"u", "s", "e", "r", "_">> \o str(user_id) \o <<"_">>

\* get_temp_file_path: temp_filename = f"user_{user_id}_{timestamp}_{safe_filename}"
temp_filename(user_id, timestamp, safe_filename) ==
    user_prefix(user_id) \o str(timestamp) \o <<"_">> \o safe_filename

\* download_to_drive and the writers: the file at name is (over)written now
written(dir, name, content, user_id) ==
    dict_set(dir, name, [content |-> content, age |-> 0, owner |-> user_id])

\* a cleanup that removes nothing
cleanup_files_of_none(dir, user_id) == dir

\* cleanup_user_files(user_id): what is left of TEMP_DIR
cleanup_files_of(dir, user_id) ==
    [name \in {n \in DOMAIN dir : ~ startswith(n, user_prefix(user_id))} |-> dir[name]]

\* a sweep that finds no file old enough
file_expired_never(file_age) == FALSE

\* cleanup_old_files: file_age > FILE_RETENTION_TIME
file_expired(file_age) == file_age > FILE_RETENTION_TIME

\* cleanup_old_files: directories and names starting with '.' are skipped
sweep_skips(filename) == startswith(filename, Str1("."))

\* UserSession.__init__
NewSession ==
    [current_operation |-> "None", current_files |-> <<>>,
     current_step |-> "None", temp_data |-> <<>>]

\* get_user_session: the session of user_id, made on its first use
get_user_session(user_id) ==
    IF user_id \in DOMAIN user_sessions THEN user_sessions[user_id] ELSE NewSession

\* one session object behind every user id
with_session_shared(user_id, session) ==
    [id \in DOMAIN user_sessions \cup {user_id} |-> session]

\* user_sessions once the handler of an update of user_id has left session behind
with_session(user_id, session) == dict_set(user_sessions, user_id, session)

\* UserSession.reset of the session of user_id
reset_of(user_id) ==
    /\ user_sessions' = with_session(user_id, NewSession)
    /\ temp_dir' = cleanup_files_of(temp_dir, user_id)

\* the session of user_id is looked up and left as it is, and so is TEMP_DIR
session_kept(user_id) ==
    /\ user_sessions' = with_session(user_id, get_user_session(user_id))
    /\ UNCHANGED temp_dir

\* the content open(path) finds and the page count get_pdf_info gives
content_at(path) == IF path \in DOMAIN temp_dir THEN temp_dir[path].content ELSE Unreadable

pages_at(path) == IF content_at(path).readable THEN Len(content_at(path).pages) ELSE 0

\* a handler takes the next update, sent by user_id, once startup_event has run
HandlesFor(user_id, kind, text) ==
    /\ cleanup_manager.running
    /\ clock <= LastArrival
    /\ updates < MaxEvents
    /\ updates' = updates + 1
    /\ update' = [kind |-> kind, text |-> text]
    /\ effective_user' = user_id
    /\ UNCHANGED <<parse_vars, engine_vars, session_vars, storage, clock,
                   webhook_requests, cleanup_manager, handle_vars>>

start_command_of(user_id) ==
    /\ HandlesFor(user_id, "command", <<>>)
    /\ reset_of(user_id)
    /\ Answers("language_selection", 0)

cancel_command_of(user_id) ==
    /\ HandlesFor(user_id, "command", <<>>)
    /\ reset_of(user_id)
    /\ Answers("cancelled", 0)

handle_pdf_of(user_id) ==
    LET session == get_user_session(user_id)
        file_path == temp_filename(user_id, clock, UploadedName)
    IN  /\ HandlesFor(user_id, "document", <<>>)
        /\ Len(session.current_files) < MaxFiles
        /\ \/ /\ Answers("file_too_large", 0)
              /\ session_kept(user_id)
           \/ \E content \in UserUploads :
                  /\ temp_dir' = written(temp_dir, file_path, content, user_id)
                  /\ user_sessions' = with_session(user_id,
                         [session EXCEPT !.current_files = Append(@, file_path)])
                  /\ Answers("file_received", 0)

start_delete_process_of(user_id) ==
    LET session == get_user_session(user_id)
    IN  /\ HandlesFor(user_id, "callback", <<>>)
        /\ IF session.current_files = <<>>
           THEN Answers("send_pdf", 0) /\ session_kept(user_id)
           ELSE /\ user_sessions' = with_session(user_id,
                       [session EXCEPT !.current_operation = "delete",
                                       !.current_step = "waiting_pages_input"])
                /\ UNCHANGED temp_dir
                /\ Answers("instruction", pages_at(session.current_files[1]))

\* handle_text_messages of a user whose only operation is delete
handle_text_messages_of(user_id) ==
    LET session == get_user_session(user_id)
        user_input == strip(Str1("1"))
    IN  /\ HandlesFor(user_id, "text", Str1("1"))
        /\ UNCHANGED temp_dir
        /\ IF ~ (session.current_operation = "delete"
                    /\ session.current_step = "waiting_pages_input")
           THEN Answers("main_menu", 0) /\ session_kept(user_id)
           ELSE IF session.current_files = <<>>
           THEN Answers("error_general", 0) /\ session_kept(user_id)
           ELSE LET total_pages == pages_at(session.current_files[1])
                    pages_to_delete == parse_page_numbers(user_input, total_pages)
                IN  IF ~ validate_page_input(user_input, total_pages)
                    THEN Answers("error_invalid_pages", total_pages) /\ session_kept(user_id)
                    ELSE IF deletes_all(pages_to_delete, total_pages)
                    THEN Answers("error_delete_all", 0) /\ session_kept(user_id)
                    ELSE /\ user_sessions' = with_session(user_id,
                                [session EXCEPT !.temp_data =
                                    dict_set(@, "pages_to_delete", pages_to_delete)])
                         /\ Answers("confirm_delete",
                                remaining_pages(total_pages, pages_to_delete))

\* execute_delete; send_document delivers the output or raises
execute_delete_of(user_id) ==
    LET session == get_user_session(user_id)
    IN  /\ HandlesFor(user_id, "callback", <<>>)
        /\ IF session.current_files = <<>>
           THEN Answers("send_pdf", 0) /\ session_kept(user_id)
           ELSE IF dict_get(session.temp_data, "pages_to_delete", <<>>) = <<>>
           THEN Answers("no_pages_selected", 0) /\ session_kept(user_id)
           ELSE LET input == content_at(session.current_files[1])
                    output_path == temp_filename(user_id, clock, OutputName)
                    result == delete_pages(input, session.temp_data["pages_to_delete"])
                IN  IF ~ result.ok
                    THEN Answers("error_processing_failed", 0) /\ session_kept(user_id)
                    ELSE \/ /\ Answers("document_sent", Len(result.out))
                            /\ reset_of(user_id)
                         \/ /\ Answers("error_general", 0)
                            /\ temp_dir' = written(temp_dir, output_path,
                                                   Pdf(result.out), user_id)
                            /\ user_sessions' = with_session(user_id, session)

HandlersIdle ==
    UNCHANGED <<parse_vars, engine_vars, session_vars, storage, update, reply, updates,
                webhook_requests, user_sessions, effective_user, handle_vars>>

\* a start that does not look at running
started_unguarded(manager) ==
    [manager EXCEPT !.running = TRUE,
                    !.loops = Append(@, "created"),
                    !.cleanup_task = Len(manager.loops) + 1]

\* start_cleanup_task: the manager after the call; asyncio.create_task makes a
\* task of _cleanup_loop that has not run yet
started(manager) ==
    IF ~ manager.running
    THEN [manager EXCEPT !.running = TRUE,
                         !.loops = Append(@, "created"),
                         !.cleanup_task = Len(manager.loops) + 1]
    ELSE manager

\* startup_event: schedule_cleanup starts the cleanup task, whose loop sweeps at once
schedule_cleanup ==
    /\ ~ cleanup_manager.running
    /\ cleanup_manager' = [started(cleanup_manager) EXCEPT !.sleep = 0]

startup_event ==
    /\ schedule_cleanup
    /\ HandlersIdle
    /\ UNCHANGED <<temp_dir, clock>>

\* cleanup_old_files: what is left of TEMP_DIR
old_files_removed(dir) ==
    [filename \in {n \in DOMAIN dir : sweep_skips(n) \/ ~ file_expired(dir[n].age)}
        |-> dir[filename]]

\* _cleanup_loop: one pass of cleanup_old_files, then asyncio.sleep(CLEANUP_INTERVAL)
cleanup_old_files ==
    /\ cleanup_manager.running
    /\ cleanup_manager.sleep = 0
    /\ temp_dir' = old_files_removed(temp_dir)
    /\ cleanup_manager' = [cleanup_manager EXCEPT !.sleep = CLEANUP_INTERVAL]
    /\ HandlersIdle
    /\ UNCHANGED clock

\* TimeStep seconds pass: the files age and the sleep of the loop runs down
time_passes ==
    /\ cleanup_manager.running
    /\ clock' = min(clock + TimeStep, LastArrival + TimeStep)
    /\ temp_dir' = [n \in DOMAIN temp_dir |->
                       [temp_dir[n] EXCEPT !.age = min(@ + TimeStep, AgeCap)]]
    /\ cleanup_manager' =
           [cleanup_manager EXCEPT !.sleep = IF @ > TimeStep THEN @ - TimeStep ELSE 0]
    /\ HandlersIdle

NextUsers ==
    \/ startup_event
    \/ \E user_id \in UserIds : start_command_of(user_id)
    \/ \E user_id \in UserIds : cancel_command_of(user_id)
    \/ \E user_id \in UserIds : handle_pdf_of(user_id)
    \/ \E user_id \in UserIds : start_delete_process_of(user_id)
    \/ \E user_id \in UserIds : handle_text_messages_of(user_id)
    \/ \E user_id \in UserIds : execute_delete_of(user_id)
    \/ cleanup_old_files
    \/ time_passes

SpecUsers == Init /\ [][NextUsers]_vars

\* one user, the sweep and the clock
FirstUser == CHOOSE user_id \in UserIds : \A other \in UserIds : user_id <= other

NextSweep ==
    \/ startup_event
    \/ start_command_of(FirstUser)
    \/ cancel_command_of(FirstUser)
    \/ handle_pdf_of(FirstUser)
    \/ start_delete_process_of(FirstUser)
    \/ handle_text_messages_of(FirstUser)
    \/ execute_delete_of(FirstUser)
    \/ cleanup_old_files
    \/ time_passes

\* the event loop runs the cleanup task whenever its sleep is over, and time passes
SpecSweep ==
    /\ Init
    /\ [][NextSweep]_vars
    /\ WF_vars(startup_event)
    /\ WF_vars(cleanup_old_files)
    /\ WF_vars(time_passes)

(***************************************************************************)
(* What a token denotes, read off the grammar of page expressions: an      *)
(* unsigned numeral, or two unsigned numerals around one '-', whitespace   *)
(* around each ignored.                                                    *)
(***************************************************************************)
TokensOf(input) == split(input, ",")

IsNumeralToken(t) == all_digits(strip(t))

IsRangeToken(t) ==
    \E i \in 1..Len(t) :
        /\ t[i] = "-"
        /\ all_digits(strip(SubSeq(t, 1, i - 1)))
        /\ all_digits(strip(SubSeq(t, i + 1, Len(t))))

RangeLow(t) == digits_value(strip(SubSeq(t, 1, find(t, "-") - 1)))

RangeHigh(t) == digits_value(strip(SubSeq(t, find(t, "-") + 1, Len(t))))

IsValidToken(t, n) ==
    \/ IsNumeralToken(t) /\ digits_value(strip(t)) \in 1..n
    \/ IsRangeToken(t) /\ 1 <= RangeLow(t) /\ RangeLow(t) <= RangeHigh(t) /\ RangeHigh(t) <= n

\* a reversed range, a range with an endpoint outside 1..n, a single index outside 1..n
IsOutOfRangeToken(t, n) ==
    \/ IsNumeralToken(t) /\ digits_value(strip(t)) \notin 1..n
    \/ IsRangeToken(t) /\ ~ (1 <= RangeLow(t) /\ RangeLow(t) <= RangeHigh(t) /\ RangeHigh(t) <= n)

\* a token with a character that is no digit, no '-' and no whitespace
IsNonNumericToken(t) == \E i \in 1..Len(t) : ~ IsDigit(t[i]) /\ t[i] # "-" /\ ~ IsSpace(t[i])

IsEmptyToken(t) == \A i \in 1..Len(t) : IsSpace(t[i])

Denotes(t, n) ==
    IF ~ IsValidToken(t, n) THEN {}
    ELSE IF IsNumeralToken(t) THEN {digits_value(strip(t))}
    ELSE RangeLow(t)..RangeHigh(t)

\* the pages of a set, as the ascending list
Ascending(S) ==
    CHOOSE q \in [1..Cardinality(S) -> S] :
        \A i, j \in 1..Cardinality(S) : i < j => q[i] < q[j]

\* the selection the valid tokens of an expression give
SelectionOf(input, n) ==
    Ascending(UNION {Denotes(TokensOf(input)[i], n) : i \in 1..Len(TokensOf(input))})

HasToken(input, P(_)) == \E i \in 1..Len(TokensOf(input)) : P(TokensOf(input)[i])

EveryToken(input, P(_)) == \A i \in 1..Len(TokensOf(input)) : P(TokensOf(input)[i])

Parsed == parse_pc \in {"parsed", "validated"}

(***************************************************************************)
(* C1. For every expression and every page count n >= 0 the list that      *)
(* parse_page_numbers returns has all its elements in 1..n and is strictly *)
(* ascending (so it holds no duplicate).                                   *)
(***************************************************************************)
C1_ResultWithinBoundsAscending ==
    Parsed =>
        /\ \A i \in 1..Len(pages) : pages[i] \in 1..max_pages
        /\ \A i, j \in 1..Len(pages) : i < j => pages[i] < pages[j]

\* two valid single indices typed in descending order have been parsed
C1_Witness ==
    /\ Parsed
    /\ Len(TokensOf(page_input)) = 2
    /\ EveryToken(page_input, LAMBDA t : IsNumeralToken(t) /\ IsValidToken(t, max_pages))
    /\ digits_value(strip(TokensOf(page_input)[1])) > digits_value(strip(TokensOf(page_input)[2]))
    /\ Len(pages) = 2

(***************************************************************************)
(* C2 as stated. An expression mixing valid tokens with a non-numeric      *)
(* token yields the selection given by the valid tokens alone.             *)
(***************************************************************************)
MixesValidAndNonNumeric ==
    /\ HasToken(page_input, LAMBDA t : IsValidToken(t, max_pages))
    /\ HasToken(page_input, IsNonNumericToken)
    /\ EveryToken(page_input, LAMBDA t : IsValidToken(t, max_pages) \/ IsNonNumericToken(t))

C2_NonNumericTokenDroppedAlone ==
    (Parsed /\ MixesValidAndNonNumeric) => pages = SelectionOf(page_input, max_pages)

(***************************************************************************)
(* C2 amended. A non-numeric token is not dropped on its own: an           *)
(* expression other than the keyword that holds a non-numeric token yields *)
(* the empty list, whatever its other tokens, and validate_page_input      *)
(* reports it invalid.                                                     *)
(***************************************************************************)
C2_NonNumericTokenFailsExpression ==
    (HasToken(page_input, IsNonNumericToken) /\ page_input \notin KeywordForms) =>
        /\ Parsed => pages = <<>>
        /\ parse_pc = "validated" => ~ is_valid

C2_Witness ==
    /\ parse_pc = "validated"
    /\ MixesValidAndNonNumeric
    /\ pages = <<>>
    /\ ~ is_valid

MixesValidAndEmpty ==
    /\ HasToken(page_input, LAMBDA t : IsValidToken(t, max_pages))
    /\ HasToken(page_input, IsEmptyToken)
    /\ EveryToken(page_input, LAMBDA t : IsValidToken(t, max_pages) \/ IsEmptyToken(t))

C4_EmptyTokensDropped ==
    (Parsed /\ MixesValidAndEmpty) => pages = SelectionOf(page_input, max_pages)

(***************************************************************************)
(* C4 amended. An empty token made by a leading, trailing or doubled comma *)
(* is not dropped: an expression with a comma and an empty token yields    *)
(* the empty list and is reported invalid.                                 *)
(***************************************************************************)
C4_EmptyTokenFailsExpression ==
    (Len(TokensOf(page_input)) >= 2 /\ HasToken(page_input, IsEmptyToken)) =>
        /\ Parsed => pages = <<>>
        /\ parse_pc = "validated" => ~ is_valid

C4_Witness ==
    /\ parse_pc = "validated"
    /\ MixesValidAndEmpty
    /\ TokensOf(page_input)[1] = <<>>
    /\ pages = <<>>
    /\ ~ is_valid

(***************************************************************************)
(* C5. The keyword 'all', in any letter case and with whitespace around    *)
(* it, gives exactly 1..n for n >= 1 and the empty list for n = 0, which   *)
(* validate_page_input reports as invalid.                                 *)
(***************************************************************************)
C5_AllKeyword ==
    page_input \in KeywordForms =>
        /\ Parsed => pages = [i \in 1..max_pages |-> i]
        /\ parse_pc = "validated" => (is_valid <=> max_pages >= 1)

\* an upper-case, padded spelling on a document of 0 pages was reported invalid
C5_Witness ==
    /\ parse_pc = "validated"
    /\ page_input = <<" ", "A", "L", "L", " ">>
    /\ max_pages = 0
    /\ pages = <<>>
    /\ ~ is_valid

(***************************************************************************)
(* C6. For an expression made only of valid single indices and valid       *)
(* ranges the result is the union of the pages the tokens denote, sorted   *)
(* ascending, overlapping ranges merged without duplicates.                *)
(***************************************************************************)
C6_UnionOfValidTokens ==
    (Parsed /\ EveryToken(page_input, LAMBDA t : IsValidToken(t, max_pages)))
        => pages = SelectionOf(page_input, max_pages)

\* two different ranges that overlap were merged
C6_Witness ==
    /\ Parsed
    /\ Len(TokensOf(page_input)) = 2
    /\ EveryToken(page_input, LAMBDA t : IsRangeToken(t) /\ IsValidToken(t, max_pages))
    /\ TokensOf(page_input)[1] # TokensOf(page_input)[2]
    /\ Denotes(TokensOf(page_input)[1], max_pages) \cap Denotes(TokensOf(page_input)[2], max_pages) # {}
    /\ Len(pages) = 3

(***************************************************************************)
(* C7. An empty parsed selection is always rejected by the caller: when    *)
(* the split, delete or rotate input handler takes a text whose parsed     *)
(* selection is empty (a blank text, "3-2", 'all' on a document reporting 0 *)
(* pages), it replies with an error, and temp_data never holds an empty     *)
(* selection.                                                               *)
(***************************************************************************)
SelectionKeys == {"pages_to_split", "pages_to_delete", "pages_to_rotate"}

SelectionStep ==
    \/ delete_accepts
    \/ rotate_accepts
    \/ current_operation = "split" /\ current_step = "waiting_pages_input"

C7_EmptySelectionRejected ==
    /\ \A k \in SelectionKeys \cap DOMAIN temp_data : temp_data[k] # <<>>
    /\ (/\ update.kind = "text"
        /\ SelectionStep
        /\ current_files # <<>>
        /\ parse_page_numbers(strip(update.text), get_pdf_info_pages(current_files[1])) = <<>>)
           => reply.kind = "error_invalid_pages"

(***************************************************************************)
(* C8. handle_reorder_input accepts an order exactly when the number of    *)
(* comma-separated integers equals the page count and they are the         *)
(* integers 1..page_count each once; an accepted order is stored in        *)
(* temp_data['new_order'] in the order typed; a rejected one ("1,1,2" or    *)
(* "1,2" for 3 pages) leaves temp_data unchanged.                           *)
(***************************************************************************)
IsIntegerToken(t) ==
    \/ all_digits(strip(t))
    \/ strip(t) # <<>> /\ Head(strip(t)) = "-" /\ all_digits(Tail(strip(t)))

TypedIntegers(input) == [i \in 1..Len(TokensOf(input)) |-> int(TokensOf(input)[i])]

IsPageOrder(input, n) ==
    /\ EveryToken(input, IsIntegerToken)
    /\ Len(TokensOf(input)) = n
    /\ \A k \in 1..n : Cardinality({i \in 1..n : TypedIntegers(input)[i] = k}) = 1

ReorderInputTaken ==
    /\ reorder_accepts
    /\ current_files # <<>>
    /\ updates' = updates + 1
    /\ update'.kind = "text"

C8_ReorderAcceptsExactlyPermutations ==
    [][ReorderInputTaken =>
          LET input == strip(update'.text)
              n == get_pdf_info_pages(current_files[1])
          IN  IF IsPageOrder(input, n)
              THEN /\ reply'.kind = "confirm_reorder"
                   /\ temp_data' = dict_set(temp_data, "new_order", TypedIntegers(input))
              ELSE /\ reply'.kind # "confirm_reorder"
                   /\ temp_data' = temp_data]_vars

C8_Witness ==
    /\ update = [kind |-> "text", text |-> <<"3", ",", "1", ",", "2">>]
    /\ reply.kind = "confirm_reorder"
    /\ "new_order" \in DOMAIN temp_data
    /\ temp_data["new_order"] = <<3, 1, 2>>

(***************************************************************************)
(* C9. delete_pages produces a document that holds exactly the pages of    *)
(* the input whose 1-based index is not in the selection, in their         *)
(* original order; its page count is the page count of the input minus the *)
(* number of selected pages, which for a selection of pages of the         *)
(* document is the figure handle_delete_input announces as remaining.      *)
(***************************************************************************)
DeleteReturned == eng_op = "delete_pages" /\ eng_pc = "returned"

C9_DeleteKeepsUnselectedPages ==
    (DeleteReturned /\ eng_file.readable) =>
        LET n == Len(eng_file.pages)
            kept == Ascending((1..n) \ Range(eng_sel))
        IN  /\ eng_ok
            /\ eng_out = [i \in 1..Len(kept) |-> eng_file.pages[kept[i]]]
            /\ Len(eng_out) = n - Cardinality(Range(eng_sel) \cap (1..n))
            /\ Range(eng_sel) \subseteq 1..n => Len(eng_out) = remaining_pages(n, eng_sel)

C9_Witness ==
    /\ DeleteReturned
    /\ eng_file.readable
    /\ Len(eng_file.pages) = 3
    /\ eng_sel = <<2>>
    /\ eng_out = <<eng_file.pages[1], eng_file.pages[3]>>

(***************************************************************************)
(* C10. Deleting with a selection that covers every page of the document   *)
(* fails instead of producing a 0-page document: delete_pages called with  *)
(* the full selection reports failure, and no call of it that reports      *)
(* success has written an output of zero pages.                            *)
(***************************************************************************)
C10_DeletingAllPagesFails ==
    (DeleteReturned /\ eng_file.readable /\ Len(eng_file.pages) >= 1) =>
        /\ (1..Len(eng_file.pages)) \subseteq Range(eng_sel) => ~ eng_ok
        /\ eng_ok => Len(eng_out) > 0

(***************************************************************************)
(* C11. reorder_pages given an order that is a permutation of              *)
(* 1..page_count writes a document of page_count pages whose page i is     *)
(* input page order[i]; for the identity order the output has the pages of *)
(* the input in the same order.                                            *)
(***************************************************************************)
ReorderReturned == eng_op = "reorder_pages" /\ eng_pc = "returned"

IsPermutation(order, n) ==
    Len(order) = n /\ \A k \in 1..n : \E i \in 1..n : order[i] = k

C11_ReorderPlacesPages ==
    (/\ ReorderReturned
     /\ eng_file.readable
     /\ IsPermutation(eng_sel, Len(eng_file.pages)))
        => /\ eng_ok
           /\ Len(eng_out) = Len(eng_file.pages)
           /\ \A i \in 1..Len(eng_out) : eng_out[i] = eng_file.pages[eng_sel[i]]
           /\ (\A i \in 1..Len(eng_sel) : eng_sel[i] = i) => eng_out = eng_file.pages

C11_Witness ==
    /\ ReorderReturned
    /\ eng_file.readable
    /\ eng_sel = <<3, 1, 2>>
    /\ Len(eng_file.pages) = 3
    /\ eng_out = <<eng_file.pages[3], eng_file.pages[1], eng_file.pages[2]>>

(***************************************************************************)
(* C12. rotate_pages keeps every page in its position; a page whose        *)
(* 1-based index is in the selection has its rotation increased by the     *)
(* angle, modulo 360, and a page outside the selection keeps its rotation. *)
(***************************************************************************)
RotateReturned == eng_op = "rotate_pages" /\ eng_pc = "returned"

C12_RotateSelectedPagesOnly ==
    (RotateReturned /\ eng_file.readable)
        => /\ eng_ok
           /\ eng_out = eng_file.pages
           /\ Len(eng_rot) = Len(eng_file.pages)
           /\ \A i \in 1..Len(eng_rot) :
                  IF i \in Range(eng_sel)
                  THEN eng_rot[i] % 360 = (eng_file.rotation[i] + eng_num) % 360
                  ELSE eng_rot[i] = eng_file.rotation[i]

C12_Witness ==
    /\ RotateReturned
    /\ eng_file.readable
    /\ Len(eng_file.pages) = 3
    /\ eng_file.rotation = <<0, 270, 90>>
    /\ eng_sel = <<2>>
    /\ eng_num = 180
    /\ eng_rot = <<0, 450, 90>>

(***************************************************************************)
(* C13. merge_pdfs writes the concatenation of the page sequences of its   *)
(* inputs, in the order the inputs are listed, each input's pages in their *)
(* source order; the output page count is the sum of the input counts.     *)
(***************************************************************************)
MergeReturned == eng_op = "merge_pdfs" /\ eng_pc = "returned"

AllReadable(files) == \A j \in 1..Len(files) : files[j].readable

\* the number of pages of the inputs listed before the j-th
RECURSIVE PagesBefore(_, _)
PagesBefore(files, j) ==
    IF j <= 1 THEN 0 ELSE PagesBefore(files, j - 1) + Len(files[j - 1].pages)

C13_MergeConcatenates ==
    (MergeReturned /\ Len(eng_files) >= 2 /\ AllReadable(eng_files))
        => /\ eng_ok
           /\ Len(eng_out) = PagesBefore(eng_files, Len(eng_files) + 1)
           /\ \A j \in 1..Len(eng_files) : \A i \in 1..Len(eng_files[j].pages) :
                  eng_out[PagesBefore(eng_files, j) + i] = eng_files[j].pages[i]

C13_Witness ==
    /\ MergeReturned
    /\ eng_files = <<Pdf(<<2, 3>>), Pdf(<<1>>), Pdf(<<2>>)>>
    /\ eng_out = <<2, 3, 1, 2>>

(***************************************************************************)
(* C14. A merge of fewer than 2 documents fails: merge_pdfs given 0 or 1   *)
(* input reports failure and writes no merged document.                    *)
(***************************************************************************)
C14_MergeOfFewerThanTwoFails ==
    (MergeReturned /\ Len(eng_files) < 2) => ~ eng_ok

(***************************************************************************)
(* C15. split_pdf_by_range with chunk size k in 1..page_count writes       *)
(* ceil(page_count / k) documents, in order, that cut pages 1..page_count  *)
(* into consecutive chunks of k pages, only the last possibly shorter; the *)
(* count is the number of files handle_split_input announces.              *)
(***************************************************************************)
SplitRangeReturned == eng_op = "split_pdf_by_range" /\ eng_pc = "returned"

C15_SplitByRangePartitions ==
    (/\ SplitRangeReturned
     /\ eng_file.readable
     /\ eng_num \in 1..Len(eng_file.pages))
        => LET n == Len(eng_file.pages)
               k == eng_num
               m == Len(eng_outs)
           IN  /\ m * k >= n
               /\ (m - 1) * k < n
               /\ m = num_files(n, k)
               /\ \A c \in 1..m :
                      /\ Len(eng_outs[c]) = (IF c < m THEN k ELSE n - (m - 1) * k)
                      /\ \A i \in 1..Len(eng_outs[c]) :
                             eng_outs[c][i] = eng_file.pages[(c - 1) * k + i]

C15_Witness ==
    /\ SplitRangeReturned
    /\ eng_file.readable
    /\ Len(eng_file.pages) = 3
    /\ eng_num = 2
    /\ eng_outs = <<SubSeq(eng_file.pages, 1, 2), SubSeq(eng_file.pages, 3, 3)>>

(***************************************************************************)
(* C16. split_pdf_by_pages given a validated selection (ascending, not     *)
(* empty, within 1..page_count) writes exactly one single-page document    *)
(* per selected index, each holding the input page of that index, and      *)
(* returns them in ascending selection order.                              *)
(***************************************************************************)
SplitPagesReturned == eng_op = "split_pdf_by_pages" /\ eng_pc = "returned"

C16_SplitByPagesOnePerIndex ==
    (/\ SplitPagesReturned
     /\ eng_file.readable
     /\ eng_sel # <<>>
     /\ Range(eng_sel) \subseteq 1..Len(eng_file.pages))
        => /\ Len(eng_outs) = Len(eng_sel)
           /\ \A i \in 1..Len(eng_sel) : eng_outs[i] = <<eng_file.pages[eng_sel[i]]>>

C16_Witness ==
    /\ SplitPagesReturned
    /\ eng_file.readable
    /\ Len(eng_file.pages) = 3
    /\ eng_sel = <<1, 3>>
    /\ eng_outs = << <<eng_file.pages[1]>>, <<eng_file.pages[3]>> >>

(***************************************************************************)
(* C17. Round trip of merge and delete: for documents A and B, deleting    *)
(* pages 1..pages(A) from merge_pdfs([A, B]) gives a document whose pages  *)
(* are exactly B's pages in B's order.                                     *)
(***************************************************************************)
MergeThenDeleteReturned == eng_op = "merge_then_delete" /\ eng_pc = "returned"

C17_DeleteOfMergeGivesSecond ==
    MergeThenDeleteReturned => eng_ok /\ eng_out = eng_files[2].pages

C17_Witness ==
    /\ MergeThenDeleteReturned
    /\ eng_files = <<Pdf(<<1, 2>>), Pdf(<<2, 3>>)>>
    /\ eng_sel = <<1, 2>>
    /\ eng_out = <<2, 3>>

(***************************************************************************)
(* C18. Rotating all pages by 90 and then all pages of the result by 270   *)
(* restores the rotation of every page, modulo 360.                        *)
(***************************************************************************)
RotateBackReturned == eng_op = "rotate_pages_back" /\ eng_pc = "returned"

AllPagesSelected == (1..Len(eng_file.pages)) \subseteq Range(eng_sel)

C18_Rotate90Then270Restores ==
    (RotateBackReturned /\ eng_num = 90 /\ AllPagesSelected)
        => /\ eng_ok
           /\ Len(eng_rot) = Len(eng_file.pages)
           /\ \A i \in 1..Len(eng_rot) : eng_rot[i] % 360 = eng_file.rotation[i] % 360

C18_Witness ==
    /\ RotateBackReturned
    /\ eng_num = 90
    /\ eng_sel = <<1, 2>>
    /\ eng_file.rotation = <<90, 180>>
    /\ eng_rot = <<450, 540>>

(***************************************************************************)
(* C19. A stored selection or order is applied only to the document it was *)
(* validated against: whenever execute_split, execute_delete,              *)
(* execute_rotate or execute_reorder runs the engine on the file at        *)
(* current_files[0] with a selection stored in temp_data, that file is the *)
(* one whose page count the input handler read when it accepted the        *)
(* selection.                                                              *)
(***************************************************************************)
AppliedSelection ==
    [delete_pages |-> "pages_to_delete",
     rotate_pages |-> "pages_to_rotate",
     reorder_pages |-> "new_order",
     split_pdf_by_pages |-> "pages_to_split",
     split_pdf_by_range |-> "pages_per_file"]

\* this step of the bot ran an engine operation on the file at current_files[0]
EngineRan == eng_pc' = "returned" /\ updates' = updates + 1

C19_SelectionAppliedToValidatedDocument ==
    [][(EngineRan /\ AppliedSelection[eng_op'] \in DOMAIN temp_data)
          => eng_file' = validated_against[AppliedSelection[eng_op']]]_vars

(***************************************************************************)
(* C20. For one user at most one transform execution is in progress at a   *)
(* time: while one execute_delete is between the end of its checks and its *)
(* return, no second one is; a second request is rejected or waits.        *)
(***************************************************************************)
Executing == {"processing", "sending", "menu"}

InProgress == {r \in DOMAIN webhook_requests : webhook_requests[r].pc \in Executing}

C20_AtMostOneExecutionInProgress == Cardinality(InProgress) <= 1

(***************************************************************************)
(* C21. Cancellation always leads to idle: after the /cancel command, and  *)
(* after a press of a Cancel button (callback data menu_main), the session *)
(* has no operation, no step, no files and no temp data.                   *)
(***************************************************************************)
SessionIdle ==
    /\ current_operation = "None"
    /\ current_step = "None"
    /\ current_files = <<>>
    /\ temp_data = <<>>

CancelCommandHandled ==
    updates' = updates + 1 /\ update'.kind = "command" /\ reply'.kind = "cancelled"

\* the prompts of a started operation carry the button
CancelButtonHandled ==
    /\ current_operation # "None"
    /\ updates' = updates + 1 /\ update'.kind = "callback" /\ reply'.kind = "main_menu"

C21_CancelLeadsToIdle ==
    [][(CancelCommandHandled \/ CancelButtonHandled) => SessionIdle']_vars

(***************************************************************************)
(* C24. Starting an operation while another is pending clears what was     *)
(* collected for the pending one: once start_<operation> has set the new   *)
(* current_operation, temp_data holds no parameter of the previous one.    *)
(***************************************************************************)
ParametersOf ==
    [delete |-> {"pages_to_delete"},
     rotate |-> {"pages_to_rotate", "rotation_angle"},
     reorder |-> {"new_order"},
     split |-> {"split_mode", "pages_to_split", "pages_per_file"},
     merge |-> {"merge_files"},
     compress |-> {"compression_level"}]

OperationReplaced ==
    /\ current_operation \in DOMAIN ParametersOf
    /\ current_operation' \in DOMAIN ParametersOf
    /\ current_operation' # current_operation

C24_NewOperationClearsPending ==
    [][OperationReplaced
          => DOMAIN temp_data' \cap ParametersOf[current_operation] = {}]_vars

(***************************************************************************)
(* C23. Every execution that succeeds and delivers its result ends in      *)
(* idle: once execute_merge, execute_split, execute_delete,                *)
(* execute_rotate, execute_reorder or execute_compress has sent its        *)
(* output, the session has no operation, no step, no files and no temp     *)
(* data.                                                                   *)
(***************************************************************************)
OutputDelivered ==
    /\ updates' = updates + 1
    /\ update'.kind = "callback"
    /\ reply'.kind \in {"document_sent", "documents_sent"}

C23_DeliveryEndsInIdle == [][OutputDelivered => SessionIdle']_vars

\* a compressed document was delivered and the session is idle again
C23_Witness ==
    /\ reply.kind = "document_sent"
    /\ eng_op = "compress_pdf"
    /\ eng_ok
    /\ SessionIdle

(***************************************************************************)
(* C30. The compression level the user selected is the level applied:      *)
(* whenever execute_compress runs compress_pdf with compression_level      *)
(* stored by set_compression_level, the effort of the run is the deflate   *)
(* level of that compression_level, which differs between low, medium and  *)
(* high.                                                                   *)
(***************************************************************************)
CompressRan ==
    /\ updates' = updates + 1
    /\ eng_op' = "compress_pdf"
    /\ eng_pc' = "returned"
    /\ eng_ok'

C30_SelectedLevelIsApplied ==
    [][CompressRan /\ "compression_level" \in DOMAIN temp_data
          => /\ eng_num' = deflate_level(temp_data["compression_level"])
             /\ \A a, b \in Levels : a # b => deflate_level(a) # deflate_level(b)]_vars

(***************************************************************************)
(* C25. Every engine failure is recoverable at the session layer: when the *)
(* engine call of an operation handler hands back its failure value, the   *)
(* handler answers with an error message and leaves the session idle or in *)
(* a parameter-collection step of that operation.                          *)
(***************************************************************************)
OperationOf ==
    [delete_pages |-> "delete", rotate_pages |-> "rotate", reorder_pages |-> "reorder",
     split_pdf_by_pages |-> "split", split_pdf_by_range |-> "split",
     merge_pdfs |-> "merge", compress_pdf |-> "compress",
     extract_text |-> "extract_text", extract_images |-> "extract_images",
     pdf_to_images |-> "convert"]

CollectionSteps ==
    [delete |-> {"waiting_pages_input"},
     rotate |-> {"select_angle", "waiting_pages_input"},
     reorder |-> {"waiting_order_input"},
     split |-> {"select_mode", "waiting_pages_input", "waiting_range_input"},
     merge |-> {"collecting_files"},
     compress |-> {"select_level"},
     extract_text |-> {},
     extract_images |-> {},
     convert |-> {"select_type", "collecting_images"}]

ErrorMessages ==
    {"error_processing_failed", "error_general", "no_text_found", "no_images_found"}

EngineFailed ==
    /\ updates' = updates + 1
    /\ eng_pc' = "returned"
    /\ eng_op' \in DOMAIN OperationOf
    /\ IF eng_op' \in {"split_pdf_by_pages", "split_pdf_by_range"}
       THEN eng_outs' = <<>>
       ELSE ~ eng_ok'

C25_EngineFailureIsRecoverable ==
    [][EngineFailed
          => /\ reply'.kind \in ErrorMessages
             /\ \/ SessionIdle'
                \/ /\ current_operation' = OperationOf[eng_op']
                   /\ current_step' \in CollectionSteps[current_operation']]_vars

(***************************************************************************)
(* C26. Merge, split, delete, rotate and reorder surface every failure to  *)
(* their caller: an input that cannot be read gives the failure value      *)
(* (False, or the empty list for the splits), and so does a requested page *)
(* that cannot be produced because the document has no such page; it is    *)
(* never skipped with a success value returned.                            *)
(***************************************************************************)
RequestsMissingPage ==
    /\ eng_file.readable
    /\ \E i \in 1..Len(eng_sel) : eng_sel[i] \notin 1..Len(eng_file.pages)

C26_FailuresAreSurfaced ==
    eng_pc = "returned" =>
        /\ (eng_op \in {"delete_pages", "rotate_pages", "reorder_pages"} /\ ~ eng_file.readable)
              => ~ eng_ok
        /\ (eng_op \in {"split_pdf_by_pages", "split_pdf_by_range"} /\ ~ eng_file.readable)
              => eng_outs = <<>>
        /\ (eng_op = "merge_pdfs" /\ \E i \in 1..Len(eng_files) : ~ eng_files[i].readable)
              => ~ eng_ok
        /\ (eng_op = "reorder_pages" /\ RequestsMissingPage) => ~ eng_ok
        /\ (eng_op = "split_pdf_by_pages" /\ RequestsMissingPage) => eng_outs = <<>>

(***************************************************************************)
(* C27. Every file written to TEMP_DIR for a user, upload or output, is    *)
(* eventually removed, by the reset of the session or by the sweep once    *)
(* its age exceeds FILE_RETENTION_TIME; also when the operation failed and *)
(* the session was never reset.                                            *)
(***************************************************************************)
TempNames ==
    {temp_filename(FirstUser, k * TimeStep, name) :
        k \in 0..MaxTime, name \in {UploadedName, OutputName}}

C27_TempFilesEventuallyRemoved ==
    \A name \in TempNames : (name \in DOMAIN temp_dir) ~> (name \notin DOMAIN temp_dir)

\* the sweep has removed the upload of a session that was never reset: the
\* session still lists the path
C27_Witness ==
    \E user_id \in DOMAIN user_sessions :
        /\ user_sessions[user_id].current_files # <<>>
        /\ user_sessions[user_id].current_files[1] \notin DOMAIN temp_dir
        /\ reply.kind \in {"error_processing_failed", "error_general"}

(***************************************************************************)
(* C22. UserSession.reset leaves the session with no operation, no step,   *)
(* no files and no temp data and removes every file of TEMP_DIR allocated  *)
(* for that user; it is performed on /start, on /cancel and when an        *)
(* operation has delivered its output.                                     *)
(***************************************************************************)
ResetDue ==
    /\ updates' = updates + 1
    /\ \/ update'.kind = "command"
       \/ reply'.kind = "document_sent"

C22_ResetClearsSessionAndFiles ==
    [][ResetDue
          => /\ effective_user' \in DOMAIN user_sessions'
             /\ user_sessions'[effective_user'] = NewSession
             /\ \A name \in DOMAIN temp_dir' : temp_dir'[name].owner # effective_user']_vars

\* the user whose delete delivered its output is idle, and neither the upload nor
\* the output is left in TEMP_DIR
C22_Witness ==
    /\ reply.kind = "document_sent"
    /\ effective_user \in DOMAIN user_sessions
    /\ user_sessions[effective_user] = NewSession
    /\ \A name \in DOMAIN temp_dir : temp_dir[name].owner # effective_user

(***************************************************************************)
(* C28. Sessions of distinct users share no mutable state: handling an     *)
(* update of one user, reset and execution included, leaves                *)
(* current_operation, current_step, current_files and temp_data of every   *)
(* other user's session as they were.                                      *)
(***************************************************************************)
C28_OtherSessionsUntouched ==
    [][updates' = updates + 1
          => \A other \in UserIds \ {effective_user'} :
                 /\ other \in DOMAIN user_sessions' <=> other \in DOMAIN user_sessions
                 /\ other \in DOMAIN user_sessions
                        => user_sessions'[other] = user_sessions[other]]_vars

\* one user was reset while the other is in the middle of a delete
C28_Witness ==
    /\ reply.kind = "cancelled"
    /\ \E other \in DOMAIN user_sessions \ {effective_user} :
           /\ user_sessions[other].current_operation = "delete"
           /\ user_sessions[other].current_files # <<>>
           /\ "pages_to_delete" \in DOMAIN user_sessions[other].temp_data

(***************************************************************************)
(* C29. No document handle outlives an operation: when a PDFProcessor      *)
(* operation has returned, whether it succeeded or failed part-way, every  *)
(* file and document it opened has been closed.                            *)
(***************************************************************************)
C29_NoHandleOutlivesOperation == eng_pc = "returned" => open_handles = {}

(***************************************************************************)
(* C31. An empty result of extract_images is a success that the caller can *)
(* tell from a failure: what the extraction of a document that was read    *)
(* returns, and what the user is told, differ from what an extraction that *)
(* failed gives.                                                           *)
(***************************************************************************)
ExtractImagesReturned == eng_op = "extract_images" /\ eng_pc = "returned"

C31_EmptyResultIsNotFailure ==
    (ExtractImagesReturned /\ eng_file.readable)
        => eng_out # extract_images(Unreadable, TRUE)

(***************************************************************************)
(* C32. An execute handler runs its engine only while the session's        *)
(* current_operation is that operation: delete_pages runs only while it is *)
(* "delete", rotate_pages only while "rotate", reorder_pages only while    *)
(* "reorder", the split engines only while "split", merge_pdfs only while  *)
(* "merge" and compress_pdf only while "compress".                         *)
(***************************************************************************)
ExecutedEngines ==
    {"delete_pages", "rotate_pages", "reorder_pages", "split_pdf_by_pages",
     "split_pdf_by_range", "merge_pdfs", "compress_pdf"}

C32_ExecuteOnlyInItsOperation ==
    [][(EngineRan /\ eng_op' \in ExecutedEngines)
          => current_operation = OperationOf[eng_op']]_vars

(***************************************************************************)
(* C33. A single-document operation cannot begin or execute without an     *)
(* uploaded file: while current_files is empty, the start and execute      *)
(* handlers of split, delete, rotate, reorder, compress, extract text and  *)
(* extract images ask for a PDF and leave current_operation, current_step  *)
(* and temp_data as they were.                                             *)
(***************************************************************************)
SingleDocumentHandlers ==
    \/ start_split_process
    \/ execute_split
    \/ start_delete_process
    \/ execute_delete
    \/ start_rotate_process
    \/ execute_rotate
    \/ start_reorder_process
    \/ execute_reorder
    \/ start_compress_process
    \/ execute_compress
    \/ start_extract_text_process
    \/ start_extract_images_process

\* the bot of a user who presses the buttons of the single-document operations
\* with and without an upload; the merge and convert menus and the level
\* buttons leave an operation and parameters behind without any file
NextSingleDocument ==
    \/ start_command
    \/ cancel_command
    \/ handle_pdf
    \/ start_merge_process
    \/ clear_merge_files
    \/ start_convert_process
    \/ \E level \in Levels : set_compression_level(level)
    \/ start_split_process
    \/ execute_split
    \/ start_delete_process
    \/ execute_delete
    \/ start_rotate_process
    \/ execute_rotate
    \/ start_reorder_process
    \/ execute_reorder
    \/ start_compress_process
    \/ execute_compress
    \/ start_extract_text_process
    \/ start_extract_images_process

SpecSingleDocument == Init /\ [][NextSingleDocument]_vars

C33_NoFileNoOperation ==
    [][(current_files = <<>> /\ SingleDocumentHandlers)
          => /\ reply'.kind = "send_pdf"
             /\ UNCHANGED <<current_operation, current_step, temp_data>>]_vars

\* a button of a single-document operation was pressed and answered with the
\* request for a PDF while the session held an operation and a parameter of
\* another menu and no file
C33_Witness ==
    /\ reply.kind = "send_pdf"
    /\ current_files = <<>>
    /\ current_operation = "merge"
    /\ "compression_level" \in DOMAIN temp_data

(***************************************************************************)
(* main.py setup_bot: the callback query handlers in the order of their    *)
(* registration, up to handle_rotate_all; re.match anchors a pattern at    *)
(* the start of the data, a trailing $ at its end. The application hands   *)
(* an update to the first handler of the group whose pattern matches.      *)
(***************************************************************************)
CallbackHandlers ==
    << [callback |-> "callback_handler", pattern |-> <<"m","e","n","u","_">>, whole |-> FALSE],
       [callback |-> "language_callback", pattern |-> <<"l","a","n","g","_">>, whole |-> FALSE],
       [callback |-> "merge_callback", pattern |-> <<"m","e","r","g","e","_">>, whole |-> FALSE],
       [callback |-> "split_callback", pattern |-> <<"s","p","l","i","t","_">>, whole |-> FALSE],
       [callback |-> "delete_callback", pattern |-> <<"d","e","l","e","t","e","_">>,
        whole |-> FALSE],
       [callback |-> "rotate_callback", pattern |-> <<"r","o","t","a","t","e","_">>,
        whole |-> FALSE],
       [callback |-> "handle_rotate_all",
        pattern |-> <<"r","o","t","a","t","e","_","a","l","l">>, whole |-> TRUE] >>

check_update(handler, data) ==
    IF handler.whole THEN data = handler.pattern ELSE startswith(data, handler.pattern)

\* the callback of the first registered handler whose pattern matches the data
process_update(data) ==
    LET matching == {i \in DOMAIN CallbackHandlers : check_update(CallbackHandlers[i], data)}
    IN  IF matching = {} THEN "none"
        ELSE CallbackHandlers[CHOOSE i \in matching : \A j \in matching : i <= j].callback

\* the callback data of the buttons of the rotate menus
RotateData(action) == <<"r","o","t","a","t","e","_">> \o action

RotateStart == RotateData(<<"s","t","a","r","t">>)

RotateExecute == RotateData(<<"e","x","e","c","u","t","e">>)

RotateAll == RotateData(<<"a","l","l">>)

RotateAngles == {RotateData(<<"9","0">>), RotateData(<<"1","8","0">>)}

RotateButtons == {RotateStart, RotateExecute, RotateAll} \cup RotateAngles

\* handlers/rotate.py rotate_callback: action = query.data.split('_')[1]; data
\* that names none of its actions is answered and otherwise ignored
rotate_callback(data) ==
    LET action == split(data, "_")[2]
    IN  IF action = <<"s","t","a","r","t">> THEN start_rotate_process
        ELSE IF action \in {<<"9","0">>, <<"1","8","0">>, <<"2","7","0">>}
        THEN set_rotation_angle(digits_value(action))
        ELSE IF action = <<"e","x","e","c","u","t","e">> THEN execute_rotate
        ELSE /\ Handles("callback", data)
             /\ Answers("none", 0)
             /\ NoEngineCall
             /\ UNCHANGED <<session_vars, storage, clock>>

\* handlers/rotate.py handle_rotate_all: every page of the document is selected
handle_rotate_all(data) ==
    /\ Handles("callback", data)
    /\ NoEngineCall
    /\ UNCHANGED <<current_operation, current_step, current_files, storage, clock>>
    /\ IF data # RotateAll
       THEN Answers("none", 0) /\ UNCHANGED <<temp_data, validated_against>>
       ELSE IF current_files = <<>>
       THEN Answers("error_general", 0) /\ UNCHANGED <<temp_data, validated_against>>
       ELSE LET total_pages == get_pdf_info_pages(current_files[1])
            IN  /\ temp_data' = dict_set(temp_data, "pages_to_rotate",
                                         range(1, total_pages + 1))
                /\ validates("pages_to_rotate")
                /\ Answers("confirm_rotate", total_pages)

\* a press of a button of the rotate menus, handled by the handler the
\* application dispatches it to
rotate_button_pressed ==
    \E data \in RotateButtons :
        IF process_update(data) = "rotate_callback" THEN rotate_callback(data)
        ELSE process_update(data) = "handle_rotate_all" /\ handle_rotate_all(data)

NextRotate ==
    \/ start_command
    \/ cancel_command
    \/ main_menu_callback
    \/ handle_pdf
    \/ rotate_button_pressed
    \/ handle_operation_text

SpecRotate == Init /\ [][NextRotate]_vars

(***************************************************************************)
(* C34. Pressing the "All Pages" button (rotate_all) while rotate awaits   *)
(* its page selection on a readable document selects every page:           *)
(* pages_to_rotate becomes 1..page_count and the confirmation is offered.  *)
(***************************************************************************)
RotateAllPressed ==
    /\ updates' = updates + 1
    /\ update' = [kind |-> "callback", text |-> RotateAll]
    /\ rotate_accepts
    /\ current_files # <<>>
    /\ read_file(current_files[1]).readable

C34_RotateAllSelectsEveryPage ==
    [][RotateAllPressed
          => /\ "pages_to_rotate" \in DOMAIN temp_data'
             /\ temp_data'["pages_to_rotate"]
                    = range(1, get_pdf_info_pages(current_files[1]) + 1)
             /\ reply'.kind = "confirm_rotate"]_vars

(***************************************************************************)
(* C35. In every session state at most one of handle_split_input,          *)
(* handle_delete_input, handle_rotate_input, handle_reorder_input and      *)
(* handle_broadcast_message accepts a text message, so the order in which  *)
(* handle_text_messages tries them never decides who processes it.         *)
(***************************************************************************)
\* the bot of a user, an administrator, who opens the menus that wait for a text
NextTextInput ==
    \/ start_command
    \/ cancel_command
    \/ handle_pdf
    \/ start_delete_process
    \/ start_rotate_process
    \/ set_rotation_angle(QuarterTurn)
    \/ start_reorder_process
    \/ start_split_process
    \/ split_by_pages_mode
    \/ split_by_range_mode
    \/ start_broadcast
    \/ handle_operation_text

SpecTextInput == Init /\ [][NextTextInput]_vars

TextHandlersAccepting ==
    {handler \in {"handle_split_input", "handle_delete_input", "handle_rotate_input",
                  "handle_reorder_input", "handle_broadcast_message"} :
        \/ handler = "handle_split_input" /\ split_accepts
        \/ handler = "handle_delete_input" /\ delete_accepts
        \/ handler = "handle_rotate_input" /\ rotate_accepts
        \/ handler = "handle_reorder_input" /\ reorder_accepts
        \/ handler = "handle_broadcast_message" /\ broadcast_accepts}

C35_AtMostOneTextHandlerAccepts == Cardinality(TextHandlersAccepting) <= 1

\* a text was processed by the last handler of the list, in a session that
\* still holds the selection another handler stored before
C35_Witness ==
    /\ update.kind = "text"
    /\ reply.kind = "confirm_broadcast"
    /\ TextHandlersAccepting = {"handle_broadcast_message"}
    /\ \E key \in {"pages_to_delete", "pages_to_rotate", "new_order", "pages_to_split"} :
           key \in DOMAIN temp_data

(***************************************************************************)
(* C37. get_temp_file_path never hands out a path of a file that still     *)
(* exists: the path an upload is stored at, the upload of a file of the    *)
(* same name within the same second included, is the path of no file of    *)
(* the temp directory.                                                     *)
(***************************************************************************)
UploadStored == updates' = updates + 1 /\ reply'.kind = "file_received"

C37_AllocatedPathIsFresh ==
    [][UploadStored => current_files'[Len(current_files')] \notin DOMAIN storage]_vars

(***************************************************************************)
(* C36. Between two resets every single-document operation works on the    *)
(* first PDF uploaded in that period: a later upload is appended to        *)
(* current_files and changes neither the first entry nor the document      *)
(* that is read at its path.                                               *)
(***************************************************************************)
LaterUpload ==
    /\ UploadStored
    /\ current_files # <<>>
    /\ current_files[1] \in DOMAIN storage

C36_FirstUploadStaysTheDocument ==
    [][LaterUpload
          => /\ current_files'[1] = current_files[1]
             /\ current_files[1] \in DOMAIN storage'
             /\ storage'[current_files[1]] = storage[current_files[1]]]_vars

(***************************************************************************)
(* C38. The periodic sweep cleanup_old_files never removes a file that a   *)
(* session which has not been reset still references: every path in some   *)
(* session's current_files that is in the temp directory before a sweep is *)
(* there after it.                                                         *)
(***************************************************************************)
SweepRan == cleanup_manager.sleep = 0 /\ cleanup_manager'.sleep = CLEANUP_INTERVAL

ReferencedFiles ==
    UNION {Range(user_sessions[user_id].current_files) : user_id \in DOMAIN user_sessions}

C38_SweepKeepsReferencedFiles ==
    [][SweepRan => \A path \in ReferencedFiles \cap DOMAIN temp_dir :
                       path \in DOMAIN temp_dir']_vars

(***************************************************************************)
(* C39. Resetting the session of user A removes only files allocated for   *)
(* A: a file get_temp_file_path allocated for another user B, the id of A  *)
(* being a decimal prefix of the id of B included, is left as it was.      *)
(***************************************************************************)
C39_ResetKeepsOtherUsersFiles ==
    [][ResetDue
          => \A name \in DOMAIN temp_dir :
                 temp_dir[name].owner # effective_user'
                     => name \in DOMAIN temp_dir' /\ temp_dir'[name] = temp_dir[name]]_vars

\* the user whose id is a prefix of the other's was reset, and the upload of
\* the other user is still in the temp directory
C39_Witness ==
    /\ reply.kind = "cancelled"
    /\ \E name \in DOMAIN temp_dir :
           /\ temp_dir[name].owner # effective_user
           /\ startswith(str(temp_dir[name].owner), str(effective_user))

(***************************************************************************)
(* utils/cleanup.py FileCleanupManager: start_cleanup_task and             *)
(* stop_cleanup_task called again and again by coroutines that interleave  *)
(* at their awaits. A task of _cleanup_loop is "created" until it first    *)
(* runs, "sleeping" at await asyncio.sleep, "cancelling" once cancel() was *)
(* called on it and it has not been resumed, and "done" at the end.        *)
(***************************************************************************)
MaxLoops == 4

MaxStops == 3

ManagerIdle == HandlersIdle /\ UNCHANGED <<temp_dir, clock>>

start_cleanup_task ==
    /\ Len(cleanup_manager.loops) < MaxLoops
    /\ cleanup_manager' = started(cleanup_manager)
    /\ ManagerIdle

\* Task.cancel(): a task that is done stays done
cancel(loops, task) ==
    [loops EXCEPT ![task] = IF @ = "done" THEN "done" ELSE "cancelling"]

\* stop_cleanup_task up to `await self.cleanup_task`, which returns at once
\* when there is no task or the task is done
stop_cleanup_task ==
    /\ Len(cleanup_manager.stopping) < MaxStops
    /\ LET task == cleanup_manager.cleanup_task
       IN  cleanup_manager' =
               IF task = 0 THEN [cleanup_manager EXCEPT !.running = FALSE]
               ELSE IF cleanup_manager.loops[task] = "done"
               THEN [cleanup_manager EXCEPT !.running = FALSE]
               ELSE [cleanup_manager EXCEPT
                         !.running = FALSE,
                         !.loops = cancel(@, task),
                         !.stopping = Append(@, [awaits |-> task,
                                                 before |-> Len(cleanup_manager.loops)])]
    /\ ManagerIdle

without(seq, i) == SubSeq(seq, 1, i - 1) \o SubSeq(seq, i + 1, Len(seq))

\* stop_cleanup_task from its await on: the awaited task has ended, its
\* CancelledError is passed over and the call returns
stop_cleanup_task_returns(i) ==
    /\ cleanup_manager.loops[cleanup_manager.stopping[i].awaits] = "done"
    /\ cleanup_manager' = [cleanup_manager EXCEPT !.stopping = without(@, i)]
    /\ ManagerIdle

\* _cleanup_loop, resumed: a cancelled task gets CancelledError and breaks; the
\* others test self.running, sweep and sleep, or leave the loop
_cleanup_loop(task) ==
    /\ cleanup_manager.loops[task] # "done"
    /\ HandlersIdle
    /\ UNCHANGED clock
    /\ IF cleanup_manager.loops[task] = "cancelling" \/ ~ cleanup_manager.running
       THEN /\ cleanup_manager' = [cleanup_manager EXCEPT !.loops[task] = "done"]
            /\ UNCHANGED temp_dir
       ELSE /\ cleanup_manager' = [cleanup_manager EXCEPT !.loops[task] = "sleeping"]
            /\ temp_dir' = old_files_removed(temp_dir)

NextCleanupTask ==
    \/ start_cleanup_task
    \/ stop_cleanup_task
    \/ \E i \in DOMAIN cleanup_manager.stopping : stop_cleanup_task_returns(i)
    \/ \E task \in DOMAIN cleanup_manager.loops : _cleanup_loop(task)

SpecCleanupTask == Init /\ [][NextCleanupTask]_vars

(***************************************************************************)
(* C40. However start_cleanup_task and stop_cleanup_task are repeated and  *)
(* interleaved, at most one cleanup loop is running, that is, is a task    *)
(* that can still sweep; a start while one is running creates no second    *)
(* loop; and when stop_cleanup_task returns the task it awaited is done    *)
(* and no loop started before that stop is running.                        *)
(***************************************************************************)
LoopRuns(loops) == {task \in DOMAIN loops : loops[task] \in {"created", "sleeping"}}

AtMostOneLoop == Cardinality(LoopRuns(cleanup_manager.loops)) <= 1

LoopCreated == Len(cleanup_manager'.loops) > Len(cleanup_manager.loops)

StopReturned(i) == cleanup_manager'.stopping = without(cleanup_manager.stopping, i)

C40_AtMostOneCleanupLoop ==
    [][/\ AtMostOneLoop'
       /\ LoopCreated => LoopRuns(cleanup_manager.loops) = {}
       /\ ~ cleanup_manager'.running => LoopRuns(cleanup_manager'.loops) = {}
       /\ \A i \in DOMAIN cleanup_manager.stopping :
              StopReturned(i)
                  => /\ cleanup_manager.loops[cleanup_manager.stopping[i].awaits] = "done"
                     /\ LoopRuns(cleanup_manager'.loops)
                            \cap (1..cleanup_manager.stopping[i].before) = {}]_vars

\* a start met a stop at its await: the loop that stop cancelled has not ended
\* and the loop of the start is there already
C40_Witness ==
    /\ cleanup_manager.stopping # <<>>
    /\ \E old, new \in DOMAIN cleanup_manager.loops :
           /\ old < new
           /\ cleanup_manager.loops[old] = "cancelling"
           /\ cleanup_manager.loops[new] = "sleeping"

====
